---- MODULE Spec2Model ----
(***************************************************************************)
(* Mississippi Weather Desk: the geospatial risk aggregation and the       *)
(* multi-source briefing synthesis (src/src/geo.py, src/src/analyze.py,    *)
(* src/src/fetch_nws.py, src/src/fetch_spc.py, src/src/fetch_wpc.py,       *)
(* src/src/fetch_nhc.py).                                                  *)
(*                                                                         *)
(* The module holds one state machine per component.  Every component has  *)
(* its own variables, its own initial predicate and its own next-state     *)
(* relation; a specification of one component leaves the variables of the  *)
(* other components at their idle values.                                  *)
(*                                                                         *)
(*   SpecRisk      should_upgrade_risk                       (geo.py)      *)
(*   SpecPip       point_in_polygon                          (geo.py)      *)
(*   SpecPipFloats point_in_polygon on float coordinates     (geo.py)      *)
(*   SpecAlerts    get_alert_counties                        (fetch_nws.py)*)
(*   SpecForecast  extract_daily_forecasts                   (analyze.py)  *)
(*   SpecGeo       get_counties_in_outlook and the roll-up   (geo.py)      *)
(*   SpecBriefing  build_briefing                            (analyze.py)  *)
(*   SpecForecastFair  SpecForecast, the loop always taking its next step  *)
(*   SpecSummaries build_regional_summaries                  (analyze.py)  *)
(*   SpecOverview  build_statewide_overview                  (analyze.py)  *)
(*   SpecGroup     group_alerts_by_type                      (fetch_nws.py)*)
(*   SpecMaxRisk   get_max_risk_from_outlooks                (fetch_spc.py)*)
(*   SpecSevere    build_severe_summary                      (analyze.py)  *)
(*   SpecByRegion  get_counties_by_region                    (geo.py)      *)
(*                                                                         *)
(* Python values are encoded as follows.  A string on which the code       *)
(* computes (strip, lower, substring, sort) is the sequence of its code    *)
(* points; a string that is only compared is a TLA+ string.  An enum       *)
(* member is the pair <<class name, member name>>, so that members of two  *)
(* enum classes with the same name are different values, as in Python.     *)
(* An optional value is <<>> (None, or a missing key) or <<v>>; where the  *)
(* code tells a key that is missing from a key that holds null, the value  *)
(* under the key is a JSON value, a record that says which of the two it   *)
(* is.  A dict is a function whose DOMAIN is the set of its keys.          *)
(***************************************************************************)
EXTENDS Integers, Sequences, FiniteSets, TLC

VARIABLES
    cmp_in,        \* should_upgrade_risk: the three risk values compared
    cmp_out,       \* should_upgrade_risk: <<>> or the record of the results
    pip_in,        \* point_in_polygon: <<point, polygon_rings>>
    pip_out,       \* point_in_polygon: <<>> or the outcome of the call
    gac_in,        \* get_alert_counties: the list of alerts
    gac_out,       \* get_alert_counties: <<>> or the list returned
    edf_periods,   \* extract_daily_forecasts: the argument periods
    edf_i,         \* extract_daily_forecasts: the index i (0-based, as in the code)
    edf_out,       \* extract_daily_forecasts: the list daily_forecasts
    edf_starts,    \* history: the value of i at which each entry was built
    edf_pc,        \* extract_daily_forecasts: "loop" or "returned"
    geo_polys,     \* get_counties_in_outlook: the argument outlook_polygons
    geo_env,       \* SHAPELY_AVAILABLE and the argument counties_geojson
    geo_k,         \* get_counties_in_outlook: the number of polygons processed
    geo_risks,     \* get_counties_in_outlook: the dict county_risks
    geo_pc,        \* "loop", "returned", "raised" or "rolled_up"
    geo_regions,   \* <<>> or the region risks computed from county_risks
    bb_upstream,   \* build_briefing: what the services answer to the requests
    bb_env,        \* SHAPELY_AVAILABLE and the loaded counties_geojson
    bb_pc,         \* build_briefing: the statement the run stands before
    bb_alerts,     \* the local alerts
    bb_by_type,    \* the local alerts_by_type
    bb_forecasts,  \* the local forecasts
    bb_outlooks,   \* the locals spc_outlooks and ero_outlooks
    bb_k,          \* the number of outlooks the aggregation loop has passed
    bb_tropical,   \* the local tropical_systems
    sources_used,  \* the list sources_used
    data_gaps,     \* the list data_gaps
    bb_log,        \* the calls build_briefing has made, with their outcome
    bb_briefing,   \* <<>> or the returned WeatherBriefing
    call_in,       \* a call of one function: <<>> or the record of its arguments
    call_out       \* a call of one function: <<>> or <<the value returned>>

riskVars == <<cmp_in, cmp_out>>

pipVars == <<pip_in, pip_out>>

alertVars == <<gac_in, gac_out>>

edfVars == <<edf_periods, edf_i, edf_out, edf_starts, edf_pc>>

geoVars == <<geo_polys, geo_env, geo_k, geo_risks, geo_pc, geo_regions>>

bbVars == <<bb_upstream, bb_env, bb_pc, bb_alerts, bb_by_type, bb_forecasts, bb_outlooks,
            bb_k, bb_tropical, sources_used, data_gaps, bb_log, bb_briefing>>

callVars == <<call_in, call_out>>

vars == <<cmp_in, cmp_out, pip_in, pip_out, gac_in, gac_out,
          edf_periods, edf_i, edf_out, edf_starts, edf_pc,
          geo_polys, geo_env, geo_k, geo_risks, geo_pc, geo_regions,
          bb_upstream, bb_env, bb_pc, bb_alerts, bb_by_type, bb_forecasts, bb_outlooks,
          bb_k, bb_tropical, sources_used, data_gaps, bb_log, bb_briefing,
          call_in, call_out>>

----------------------------------------------------------------------------
(* Generic helpers for the encoding of Python values.                      *)

None == <<>>

Some(v) == <<v>>

\* a value of a JSON object under a key: the key is missing, or the value
\* is null, a string, or a number other than 0
Missing == [kind |-> "missing", s |-> <<>>]

JsonNull == [kind |-> "null", s |-> <<>>]

JsonNumber == [kind |-> "number", s |-> <<>>]

JsonString(s) == [kind |-> "string", s |-> <<s>>]

\* dict.get(key, default)
DictGet(d, key, default) == IF key \in DOMAIN d THEN d[key] ELSE default

\* the set of the elements of a list
Range(s) == {s[n] : n \in 1..Len(s)}

\* all lists over S of length at most n
SeqsUpTo(S, n) == UNION {[1..m -> S] : m \in 0..n}

----------------------------------------------------------------------------
(* Python str, as the sequence of its code points.                         *)

\* str.isspace for one character: the code points Python 3 takes as
\* whitespace, the separators 28-31 included
IsSpace(c) ==
    c \in {9, 10, 11, 12, 13, 28, 29, 30, 31, 32, 133, 160, 5760, 8232, 8233, 8239, 8287, 12288}
            \cup 8192..8202

RECURSIVE lstrip(_)
lstrip(s) == IF s # <<>> /\ IsSpace(Head(s)) THEN lstrip(Tail(s)) ELSE s

RECURSIVE rstrip(_)
rstrip(s) == IF s # <<>> /\ IsSpace(s[Len(s)]) THEN rstrip(SubSeq(s, 1, Len(s) - 1)) ELSE s

\* str.strip()
strip(s) == rstrip(lstrip(s))

\* a < b for two str: by code point, a proper prefix before the longer string
RECURSIVE StrLess(_, _)
StrLess(a, b) ==
    IF b = <<>> THEN FALSE
    ELSE IF a = <<>> THEN TRUE
    ELSE IF Head(a) # Head(b) THEN Head(a) < Head(b)
    ELSE StrLess(Tail(a), Tail(b))

\* sorted(list(S)) for a set S of str
RECURSIVE sorted(_)
sorted(S) ==
    IF S = {}
    THEN <<>>
    ELSE LET least == CHOOSE a \in S : \A b \in S \ {a} : StrLess(a, b)
         IN  <<least>> \o sorted(S \ {least})

\* sub is a prefix of s
StartsWith(s, sub) == Len(sub) <= Len(s) /\ SubSeq(s, 1, Len(sub)) = sub

\* "sub in s"
Contains(s, sub) == \E n \in 0..(Len(s) - Len(sub)) : SubSeq(s, n + 1, n + Len(sub)) = sub

\* s.replace(old, new) for a non-empty old: every occurrence, left to right
RECURSIVE Replace(_, _, _)
Replace(s, old, new) ==
    IF Len(s) < Len(old) THEN s
    ELSE IF StartsWith(s, old)
    THEN new \o Replace(SubSeq(s, Len(old) + 1, Len(s)), old, new)
    ELSE <<Head(s)>> \o Replace(Tail(s), old, new)

\* the period names and the literals of extract_daily_forecasts
Today == <<84, 111, 100, 97, 121>>

Tonight == <<84, 111, 110, 105, 103, 104, 116>>

Monday == <<77, 111, 110, 100, 97, 121>>

MondayNight == <<77, 111, 110, 100, 97, 121, 32, 78, 105, 103, 104, 116>>

Night == <<78, 105, 103, 104, 116>>

SpaceNight == <<32, 78, 105, 103, 104, 116>>

\* the county and place names used by the model
Hinds == <<72, 105, 110, 100, 115>>

Rankin == <<82, 97, 110, 107, 105, 110>>

DeSoto == <<68, 101, 83, 111, 116, 111>>

Yazoo == <<89, 97, 122, 111, 111>>

Adams == <<65, 100, 97, 109, 115>>

Lincoln == <<76, 105, 110, 99, 111, 108, 110>>

Blank == <<32>>

----------------------------------------------------------------------------
(* models.py: the two risk enums.                                          *)

SPCRisk == {<<"SPCRisk", m>> : m \in {"TSTM", "MRGL", "SLGT", "ENH", "MDT", "HIGH", "NONE"}}

EROCategory == {<<"EROCategory", m>> : m \in {"MRGL", "SLGT", "MDT", "HIGH", "NONE"}}

SPC(m) == <<"SPCRisk", m>>

ERO(m) == <<"EROCategory", m>>

----------------------------------------------------------------------------
(* geo.py: should_upgrade_risk.                                            *)

spc_priority ==
    [r \in SPCRisk |->
        CASE r = SPC("NONE") -> 0
          [] r = SPC("TSTM") -> 1
          [] r = SPC("MRGL") -> 2
          [] r = SPC("SLGT") -> 3
          [] r = SPC("ENH")  -> 4
          [] r = SPC("MDT")  -> 5
          [] r = SPC("HIGH") -> 6]

ero_priority ==
    [r \in EROCategory |->
        CASE r = ERO("NONE") -> 0
          [] r = ERO("MRGL") -> 1
          [] r = ERO("SLGT") -> 2
          [] r = ERO("MDT")  -> 3
          [] r = ERO("HIGH") -> 4]

\* the mutant of should_upgrade_risk: ">=" where the code has ">"
should_upgrade_risk_geq(current, new) ==
    LET current_pri == DictGet(spc_priority, current, DictGet(ero_priority, current, 0))
        new_pri     == DictGet(spc_priority, new, DictGet(ero_priority, new, 0))
    IN  new_pri >= current_pri

should_upgrade_risk(current, new) ==
    LET current_pri == DictGet(spc_priority, current, DictGet(ero_priority, current, 0))
        new_pri     == DictGet(spc_priority, new, DictGet(ero_priority, new, 0))
    IN  new_pri > current_pri

----------------------------------------------------------------------------
(* SpecRisk: three risk values are drawn, and should_upgrade_risk is       *)
(* applied to the pairs of them.                                           *)

RiskValues == SPCRisk \cup EROCategory

InitRisk ==
    /\ cmp_in \in RiskValues \X RiskValues \X RiskValues
    /\ cmp_out = None

IdleRisk ==
    /\ cmp_in = None
    /\ cmp_out = None

Compare ==
    /\ cmp_out = None
    /\ cmp_out' = Some([xy |-> should_upgrade_risk(cmp_in[1], cmp_in[2]),
                        yx |-> should_upgrade_risk(cmp_in[2], cmp_in[1]),
                        yz |-> should_upgrade_risk(cmp_in[2], cmp_in[3]),
                        xz |-> should_upgrade_risk(cmp_in[1], cmp_in[3])])
    /\ UNCHANGED cmp_in

----------------------------------------------------------------------------
(* Python floats.  The coordinates of the configuration and of the         *)
(* services are JSON numbers, which Python reads as floats (IEEE 754       *)
(* binary64): every operation gives the representable value nearest to the *)
(* exact result, ties to the even mantissa.  A natural number of any size  *)
(* is the list of its digits in base 2^15, lowest first, without a leading *)
(* zero.  A float is the record of its sign, its mantissa of Precision     *)
(* binary digits and its exponent: man * 2^exp; zero has the empty         *)
(* mantissa.  The leading digit of a float has an exponent of at most      *)
(* MaxExponent, and a result beyond that is an infinity; the last digit    *)
(* has an exponent of at least MinExponent, so that a result below         *)
(* 2^(MinExponent + Precision - 1) has fewer digits (a subnormal number)   *)
(* or is zero.  An infinity is the record with the empty mantissa and the  *)
(* exponent SpecialExponent, and a NaN one with that exponent and a        *)
(* mantissa that is not empty, as in the format.  The sign of a zero is    *)
(* left out: no operation of the code depends on it.                       *)

\* the binary digits of the mantissa of a binary64 number
Precision == 53

\* the binary digits of one digit of a natural number
DigitBits == 15

Base == 2^DigitBits

RECURSIVE Trim(_)
Trim(a) == IF a = <<>> THEN a ELSE IF a[Len(a)] = 0 THEN Trim(SubSeq(a, 1, Len(a) - 1)) ELSE a

RECURSIVE NatOf(_)
NatOf(n) == IF n = 0 THEN <<>> ELSE <<n % Base>> \o NatOf(n \div Base)

DigitAt(a, k) == IF k <= Len(a) THEN a[k] ELSE 0

RECURSIVE NatLessFrom(_, _, _)
NatLessFrom(a, b, k) ==
    IF k = 0 THEN FALSE
    ELSE IF a[k] # b[k] THEN a[k] < b[k]
    ELSE NatLessFrom(a, b, k - 1)

NatLess(a, b) == IF Len(a) # Len(b) THEN Len(a) < Len(b) ELSE NatLessFrom(a, b, Len(a))

RECURSIVE NatAddFrom(_, _, _, _)
NatAddFrom(a, b, k, carry) ==
    IF k > Len(a) /\ k > Len(b)
    THEN IF carry = 0 THEN <<>> ELSE <<carry>>
    ELSE LET sum == DigitAt(a, k) + DigitAt(b, k) + carry
         IN  <<sum % Base>> \o NatAddFrom(a, b, k + 1, sum \div Base)

NatAdd(a, b) == NatAddFrom(a, b, 1, 0)

\* a - b for a >= b
RECURSIVE NatSubFrom(_, _, _, _)
NatSubFrom(a, b, k, borrow) ==
    IF k > Len(a)
    THEN <<>>
    ELSE LET diff == DigitAt(a, k) - DigitAt(b, k) - borrow
         IN  <<diff % Base>> \o NatSubFrom(a, b, k + 1, IF diff < 0 THEN 1 ELSE 0)

NatSub(a, b) == Trim(NatSubFrom(a, b, 1, 0))

\* a * m for a digit m
RECURSIVE MulDigitFrom(_, _, _, _)
MulDigitFrom(a, m, k, carry) ==
    IF k > Len(a)
    THEN IF carry = 0 THEN <<>> ELSE <<carry>>
    ELSE LET product == a[k] * m + carry
         IN  <<product % Base>> \o MulDigitFrom(a, m, k + 1, product \div Base)

MulDigit(a, m) == IF m = 0 THEN <<>> ELSE MulDigitFrom(a, m, 1, 0)

\* a * Base^k
ShiftDigits(a, k) == IF a = <<>> THEN <<>> ELSE [n \in 1..(Len(a) + k) |-> IF n <= k THEN 0 ELSE a[n - k]]

\* a * 2^k
ShiftLeft(a, k) == ShiftDigits(MulDigit(a, 2^(k % DigitBits)), k \div DigitBits)

RECURSIVE NatMulFrom(_, _, _)
NatMulFrom(a, b, k) ==
    IF k > Len(b)
    THEN <<>>
    ELSE NatAdd(ShiftDigits(MulDigit(a, b[k]), k - 1), NatMulFrom(a, b, k + 1))

NatMul(a, b) == NatMulFrom(a, b, 1)

\* the number of binary digits of a
BitLen(a) ==
    IF a = <<>> THEN 0
    ELSE DigitBits * (Len(a) - 1)
             + (CHOOSE n \in 1..DigitBits : 2^(n - 1) <= a[Len(a)] /\ a[Len(a)] < 2^n)

\* the greatest digit q with b * q <= r, found from its highest binary
\* digit down
RECURSIVE QuotientDigit(_, _, _, _)
QuotientDigit(r, b, bit, q) ==
    IF bit < 0
    THEN q
    ELSE IF NatLess(r, MulDigit(b, q + 2^bit))
    THEN QuotientDigit(r, b, bit - 1, q)
    ELSE QuotientDigit(r, b, bit - 1, q + 2^bit)

\* long division: the quotient and the remainder of a by b, from digit k of
\* a down, with the quotient q and the remainder r of the digits above k
RECURSIVE NatDivFrom(_, _, _, _, _)
NatDivFrom(a, b, k, q, r) ==
    IF k = 0
    THEN <<Trim(q), r>>
    ELSE LET r2 == Trim(<<a[k]>> \o r)
             digit == QuotientDigit(r2, b, DigitBits - 1, 0)
         IN  NatDivFrom(a, b, k - 1, <<digit>> \o q, NatSub(r2, MulDigit(b, digit)))

NatDivMod(a, b) == NatDivFrom(a, b, Len(a), <<>>, <<>>)

\* the exponent of the leading binary digit of the greatest binary64 number
MaxExponent == 1023

\* the exponent of the last binary digit of a subnormal binary64 number
MinExponent == 0 - 1074

\* the exponent of the infinities and of the NaNs
SpecialExponent == MaxExponent + 1

FloatZero == [neg |-> FALSE, man |-> <<>>, exp |-> 0]

Infinity(neg) == [neg |-> neg, man |-> <<>>, exp |-> SpecialExponent]

NaN == [neg |-> FALSE, man |-> <<1>>, exp |-> SpecialExponent]

IsNaN(a) == a.exp = SpecialExponent /\ a.man # <<>>

IsInf(a) == a.exp = SpecialExponent /\ a.man = <<>>

IsZero(a) == a.exp # SpecialExponent /\ a.man = <<>>

\* a finite float that is not zero lies in [2^(Top - 1), 2^Top)
Top(a) == a.exp + BitLen(a.man)

Lesser(m, n) == IF m < n THEN m ELSE n

\* the quotient and the remainder of num by den, with the divisor and the
\* scale used
DivWith(num, den, k) == [qr |-> NatDivMod(num, den), den |-> den, k |-> k]

\* the quotient of n * 2^k by d and the remainder
ScaledDiv(n, d, k) ==
    DivWith(IF k >= 0 THEN ShiftLeft(n, k) ELSE n, IF k >= 0 THEN d ELSE ShiftLeft(d, 0 - k), k)

\* the float of the rounded magnitude man * 2^exp: zero, or an infinity
\* when it is 2^(MaxExponent + 1) or more (overflow)
Finite(neg, man, exp) ==
    IF man = <<>> THEN FloatZero
    ELSE IF exp + BitLen(man) > MaxExponent + 1 THEN Infinity(neg)
    ELSE [neg |-> neg, man |-> man, exp |-> exp]

\* the mantissa man * 2^exp cut to Precision digits when the rounding has
\* carried into one digit more
Normal(neg, man, exp) ==
    IF BitLen(man) > Precision
    THEN Finite(neg, NatDivMod(man, <<2>>)[1], exp + 1)
    ELSE Finite(neg, man, exp)

\* the quotient q with the remainder r of a division by den, rounded to the
\* nearest, ties to even; twice is 2 * r
RoundQuotient(q, den, twice) ==
    IF NatLess(den, twice) \/ (twice = den /\ DigitAt(q, 1) % 2 = 1) THEN NatAdd(q, <<1>>) ELSE q

RoundDiv(neg, e, div) ==
    Normal(neg, RoundQuotient(div.qr[1], div.den, ShiftLeft(div.qr[2], 1)), e - div.k)

\* the first division gives Precision or Precision + 1 digits
RoundFirst(neg, n, d, e, k0, first) ==
    RoundDiv(neg, e, IF BitLen(first.qr[1]) > Precision THEN ScaledDiv(n, d, k0 - 1) ELSE first)

RoundFrom(neg, n, d, e, k0) == RoundFirst(neg, n, d, e, k0, ScaledDiv(n, d, k0))

\* the float nearest to n / d * 2^e for naturals n > 0 and d > 0, ties to
\* even.  The quotient is below 2^(BitLen(n) - BitLen(d) + 1): it rounds to
\* zero when that is at most half of the least subnormal number, and it is
\* divided to Precision digits, or to the fewer digits above MinExponent
RoundRatio(neg, n, d, e) ==
    IF BitLen(n) - BitLen(d) + 1 + e < MinExponent
    THEN FloatZero
    ELSE RoundFrom(neg, n, d, e, Lesser(Precision - (BitLen(n) - BitLen(d)), e - MinExponent))

\* the true division p / q of two ints (q > 0), and float(n) for an int n
FloatOfRatio(p, q) ==
    IF p = 0 THEN FloatZero
    ELSE RoundRatio(p < 0, NatOf(IF p < 0 THEN 0 - p ELSE p), NatOf(q), 0)

FloatOfInt(n) == FloatOfRatio(n, 1)

FloatNeg(a) == IF IsZero(a) \/ IsNaN(a) THEN a ELSE [a EXCEPT !.neg = ~a.neg]

\* the mantissas of two floats over the exponent e, the smaller of theirs
AlignedAt(a, b, e) ==
    [a |-> ShiftLeft(a.man, a.exp - e), b |-> ShiftLeft(b.man, b.exp - e), exp |-> e]

Aligned(a, b) == AlignedAt(a, b, IF a.exp < b.exp THEN a.exp ELSE b.exp)

\* the sum of two finite floats that are not zero, al their aligned mantissas
AddAligned(a, b, al) ==
    IF a.neg # b.neg /\ al.a = al.b
    THEN FloatZero
    ELSE RoundRatio(IF a.neg = b.neg \/ ~NatLess(al.a, al.b) THEN a.neg ELSE b.neg,
                    IF a.neg = b.neg THEN NatAdd(al.a, al.b)
                    ELSE IF NatLess(al.a, al.b) THEN NatSub(al.b, al.a)
                    ELSE NatSub(al.a, al.b),
                    <<1>>, al.exp)

\* the sum of two finite floats that are not zero.  A term below a quarter
\* of the last digit of the other does not change it: the other is a
\* float, and the nearest float to the sum
AddFinite(a, b) ==
    IF Top(a) - Top(b) > Precision + 2 THEN a
    ELSE IF Top(b) - Top(a) > Precision + 2 THEN b
    ELSE AddAligned(a, b, Aligned(a, b))

\* a + b
FloatAdd(a, b) ==
    IF IsNaN(a) \/ IsNaN(b) THEN NaN
    ELSE IF IsInf(a) THEN (IF IsInf(b) /\ a.neg # b.neg THEN NaN ELSE a)
    ELSE IF IsInf(b) THEN b
    ELSE IF IsZero(a) THEN b
    ELSE IF IsZero(b) THEN a
    ELSE AddFinite(a, b)

\* a - b
FloatSub(a, b) == FloatAdd(a, FloatNeg(b))

\* a * b
FloatMul(a, b) ==
    IF IsNaN(a) \/ IsNaN(b) THEN NaN
    ELSE IF IsInf(a) \/ IsInf(b)
    THEN (IF IsZero(a) \/ IsZero(b) THEN NaN ELSE Infinity(a.neg # b.neg))
    ELSE IF IsZero(a) \/ IsZero(b) THEN FloatZero
    ELSE RoundRatio(a.neg # b.neg, NatMul(a.man, b.man), <<1>>, a.exp + b.exp)

\* a / b for b # 0 (Python raises ZeroDivisionError for b = 0)
FloatDiv(a, b) ==
    IF IsNaN(a) \/ IsNaN(b) THEN NaN
    ELSE IF IsInf(a) THEN (IF IsInf(b) THEN NaN ELSE Infinity(a.neg # b.neg))
    ELSE IF IsInf(b) \/ IsZero(a) THEN FloatZero
    ELSE RoundRatio(a.neg # b.neg, a.man, b.man, a.exp - b.exp)

\* |a| < |b| for two floats that are neither zero nor NaN
MagnitudeLess(a, b, al) ==
    IF IsInf(a) THEN FALSE
    ELSE IF IsInf(b) THEN TRUE
    ELSE IF Top(a) # Top(b) THEN Top(a) < Top(b)
    ELSE NatLess(ShiftLeft(a.man, a.exp - al), ShiftLeft(b.man, b.exp - al))

\* a < b; a comparison with a NaN is false
FloatLess(a, b) ==
    IF IsNaN(a) \/ IsNaN(b) THEN FALSE
    ELSE IF IsZero(a) THEN ~IsZero(b) /\ ~b.neg
    ELSE IF IsZero(b) THEN a.neg
    ELSE IF a.neg # b.neg THEN a.neg
    ELSE IF a.neg THEN MagnitudeLess(b, a, Lesser(a.exp, b.exp))
    ELSE MagnitudeLess(a, b, Lesser(a.exp, b.exp))

----------------------------------------------------------------------------
(* geo.py: point_in_polygon.  A point and a vertex are lists of            *)
(* coordinates, (lon, lat) = (x, y); a ring is a list of vertices.         *)

\* ring[i][0], ring[i][1] raise IndexError on a vertex with fewer than two
\* coordinates; every vertex of the ring is read by the loop
pip_raises(point, polygon_rings) ==
    /\ polygon_rings # <<>>
    /\ polygon_rings[1] # <<>>
    /\ \E n \in 1..Len(polygon_rings[1]) : Len(polygon_rings[1][n]) < 2

Abs(n) == IF n < 0 THEN 0 - n ELSE n

\* the float nearest to the exact quotient p / c of two ints, c # 0; p is
\* given by its sign and its magnitude, a natural number of any size
NearestQuotient(negative, magnitude, c) ==
    IF magnitude = <<>> THEN FloatZero ELSE RoundRatio(negative # (c < 0), magnitude, NatOf(Abs(c)), 0)

\* p / c raises OverflowError where a float operation would give an
\* infinity: when the nearest float is beyond the greatest double
IntTrueDivRaises(negative, magnitude, c) == IsInf(NearestQuotient(negative, magnitude, c))

\* p / c for two ints, c # 0, where the division does not raise.  The
\* products of line 103 are of coordinates of the model, below 2^31 in
\* magnitude, so that no quotient there is near the greatest double.
IntTrueDiv(negative, magnitude, c) == NearestQuotient(negative, magnitude, c)

\* the coordinates for which the test of line 103 is computed with the
\* integers of the model
SmallCoordinates(x, y, xi, yi, xj, yj) == \A c \in {x, y, xi, yi, xj, yj} : Abs(c) <= 2^14

\* line 103, for int coordinates: x < (xj - xi) * (y - yi) / (yj - yi) + xi,
\* evaluated only where yi # yj.  The product p is an int, the quotient and
\* the sum are floats.  For coordinates up to 2^14 the two roundings do not
\* change the comparison: with d = yj - yi and m = x - xi, a quotient
\* p / d > m is at least m + 1 / |d| >= m + 2^-15, and the quotient (below
\* 2^30) and the sum (below 2^31) are each rounded by at most 2^-22, so the
\* sum stays above x; a quotient p / d <= m rounds to at most m, since m
\* is a float, and the sum to at most x.  There the test is m * d < p for
\* d > 0 and m * d > p for d < 0.
RayLeftOfEdge(x, y, xi, yi, xj, yj) ==
    IF SmallCoordinates(x, y, xi, yi, xj, yj)
    THEN IF yj - yi > 0
         THEN (x - xi) * (yj - yi) < (xj - xi) * (y - yi)
         ELSE (x - xi) * (yj - yi) > (xj - xi) * (y - yi)
    ELSE FloatLess(FloatOfInt(x),
                   FloatAdd(IntTrueDiv((xj - xi < 0) # (y - yi < 0), NatMul(NatOf(Abs(xj - xi)), NatOf(Abs(y - yi))), yj - yi),
                            FloatOfInt(xi)))

\* the test of one edge (line 103)
EdgeCrossed(x, y, xi, yi, xj, yj) ==
    /\ (yi > y) # (yj > y)
    /\ RayLeftOfEdge(x, y, xi, yi, xj, yj)

\* the loop "for i in range(n)" from index i on (1-based), j the previous index
RECURSIVE PipLoop(_, _, _, _, _, _)
PipLoop(ring, x, y, i, j, inside) ==
    IF i > Len(ring)
    THEN inside
    ELSE LET crossed == EdgeCrossed(x, y, ring[i][1], ring[i][2], ring[j][1], ring[j][2])
         IN  PipLoop(ring, x, y, i + 1, i, IF crossed THEN ~inside ELSE inside)

\* the mutant of point_in_polygon: the edge from the last vertex of the ring
\* to the first is left out
point_in_polygon_no_wrap(point, polygon_rings) ==
    IF polygon_rings = <<>>
    THEN FALSE
    ELSE LET ring == polygon_rings[1]
         IN  IF ring = <<>>
             THEN FALSE
             ELSE PipLoop(ring, point[1], point[2], 2, 1, FALSE)

\* the value point_in_polygon returns when it does not raise
point_in_polygon(point, polygon_rings) ==
    IF polygon_rings = <<>>
    THEN FALSE
    ELSE LET ring == polygon_rings[1]
         IN  IF ring = <<>>
             THEN FALSE
             ELSE PipLoop(ring, point[1], point[2], 1, Len(ring), FALSE)

----------------------------------------------------------------------------
(* geo.py: point_in_polygon on float coordinates.                         *)

\* the test of one edge (line 103) on floats
FloatEdgeCrossed(x, y, xi, yi, xj, yj) ==
    /\ FloatLess(y, yi) # FloatLess(y, yj)
    /\ FloatLess(x, FloatAdd(FloatDiv(FloatMul(FloatSub(xj, xi), FloatSub(y, yi)),
                                      FloatSub(yj, yi)),
                             xi))

\* the loop "for i in range(n)" from index i on (1-based), j the previous index
RECURSIVE FloatPipLoop(_, _, _, _, _, _)
FloatPipLoop(ring, x, y, i, j, inside) ==
    IF i > Len(ring)
    THEN inside
    ELSE LET crossed == FloatEdgeCrossed(x, y, ring[i][1], ring[i][2], ring[j][1], ring[j][2])
         IN  FloatPipLoop(ring, x, y, i + 1, i, IF crossed THEN ~inside ELSE inside)

\* the value point_in_polygon returns for float coordinates when it does
\* not raise
point_in_polygon_floats(point, polygon_rings) ==
    IF polygon_rings = <<>>
    THEN FALSE
    ELSE LET ring == polygon_rings[1]
         IN  IF ring = <<>>
             THEN FALSE
             ELSE FloatPipLoop(ring, point[1], point[2], 1, Len(ring), FALSE)

----------------------------------------------------------------------------
(* SpecPip: a point of a grid and a polygon of a catalogue are drawn, and  *)
(* point_in_polygon is applied.                                            *)

\* the side of the square of tests/test_geo.py
SquareSide == 10

\* the grid of test points reaches this far beyond the square on every side
PointMargin == 5

Rect(x0, y0, x1, y1) == <<<<x0, y0>>, <<x1, y0>>, <<x1, y1>>, <<x0, y1>>, <<x0, y0>>>>

Reversed(ring) == [n \in 1..Len(ring) |-> ring[Len(ring) + 1 - n]]

\* tests/test_geo.py: the square and the triangle
SquareRing == Rect(0, 0, SquareSide, SquareSide)

TriangleRing == <<<<0, 0>>, <<SquareSide, 0>>, <<5, SquareSide>>, <<0, 0>>>>

SmallRectRing == Rect(2, 3, 7, 5)

RightTriangleRing == <<<<1, 1>>, <<9, 1>>, <<1, 7>>, <<1, 1>>>>

\* a triangle far from the origin, where neighbouring floats are further
\* apart than the slope of its left edge moves in one unit of height
FarTriangleRing ==
    <<<<2^30, 0>>, <<2^30 + 1, 2^23 + 1>>, <<2^30 + 5, 0>>, <<2^30, 0>>>>

SimpleRings ==
    {SquareRing, Reversed(SquareRing), TriangleRing, Reversed(TriangleRing),
     SmallRectRing, RightTriangleRing}

\* the points around the base of the far triangle
FarPoints == {<<x, y>> : x \in (2^30 - 2)..(2^30 + 7), y \in (0 - 1)..3}

GridPoints ==
    {<<x, y>> : x \in (0 - PointMargin)..(SquareSide + PointMargin),
                y \in (0 - PointMargin)..(SquareSide + PointMargin)}

InitPip ==
    /\ pip_in \in (GridPoints \X {<<ring>> : ring \in SimpleRings})
                     \cup (FarPoints \X {<<FarTriangleRing>>, <<Reversed(FarTriangleRing)>>})
    /\ pip_out = None

IdlePip ==
    /\ pip_in = None
    /\ pip_out = None

CallPointInPolygon ==
    /\ pip_out = None
    /\ pip_out' = IF pip_raises(pip_in[1], pip_in[2])
                  THEN Some([raised |-> TRUE, inside |-> FALSE])
                  ELSE Some([raised |-> FALSE,
                             inside |-> point_in_polygon(pip_in[1], pip_in[2])])
    /\ UNCHANGED pip_in

----------------------------------------------------------------------------
(* SpecPipFloats: a point with float coordinates and a polygon whose outer *)
(* ring is missing, empty, or has one or two vertices are drawn, among     *)
(* them coordinates near the limits of the float format, and               *)
(* point_in_polygon is applied.                                            *)

\* the x of the test points are the thirds n / 3, and the y the halves
\* n / 2, for n up to this
MaxNumerator == 6

FloatVertex(x, y) == <<FloatOfInt(x), FloatOfInt(y)>>

\* the float 2^e, for MinExponent <= e <= MaxExponent
PowerOfTwo(e) == RoundRatio(FALSE, <<1>>, <<1>>, e)

\* rings of two vertices where line 103 overflows to an infinity, works on
\* subnormal numbers, and meets an infinite coordinate
ExtremeRings ==
    {<<<<<<PowerOfTwo(600), PowerOfTwo(601)>>, <<FloatZero, FloatZero>>>>>>,
     <<<<<<FloatZero, FloatZero>>, <<PowerOfTwo(MinExponent + 1), PowerOfTwo(MinExponent + 2)>>>>>>,
     <<<<<<FloatZero, FloatZero>>, <<Infinity(FALSE), FloatOfInt(2)>>>>>>}

ExtremePoints ==
    {<<PowerOfTwo(1000), PowerOfTwo(600)>>,
     <<PowerOfTwo(MinExponent), PowerOfTwo(MinExponent + 1)>>}

DegenerateRings ==
    {<<>>,
     <<<<>>>>,
     <<<<FloatVertex(1, 1)>>>>,
     <<<<FloatVertex(0, 0), FloatVertex(1, 3)>>>>,
     <<<<FloatVertex(1, 3), FloatVertex(0, 0)>>>>,
     <<<<FloatVertex(0, 0), FloatVertex(2, 2)>>>>,
     <<<<FloatVertex(2, 0), FloatVertex(0, 3)>>, <<FloatVertex(0, 0), FloatVertex(1, 3), FloatVertex(2, 0)>>>>}
    \cup ExtremeRings

FloatPoints ==
    {<<FloatOfRatio(n, 3), FloatOfRatio(m, 2)>> : n \in 0..MaxNumerator, m \in 0..MaxNumerator}
    \cup ExtremePoints

InitPipFloats ==
    /\ pip_in \in FloatPoints \X DegenerateRings
    /\ pip_out = None

CallPointInPolygonFloats ==
    /\ pip_out = None
    /\ pip_out' = IF pip_raises(pip_in[1], pip_in[2])
                  THEN Some([raised |-> TRUE, inside |-> FALSE])
                  ELSE Some([raised |-> FALSE,
                             inside |-> point_in_polygon_floats(pip_in[1], pip_in[2])])
    /\ UNCHANGED pip_in

----------------------------------------------------------------------------
(* The configuration of a run: config/ms_counties.json, a list of county   *)
(* dicts with name, region and centroid, and data/ms_counties.geojson, the *)
(* county boundaries.  The model has four counties in three regions, an    *)
(* entry without a name, an entry with the empty name, and a county        *)
(* without a centroid.  The geometry of a feature is missing (<<>>) or is  *)
(* a boundary, an axis-aligned box <<x0, y0, x1, y1>>; a geometry with     *)
(* fewer numbers is one that shape() rejects.                              *)

\* an entry of the configuration; what stands under "region" is a JSON
\* value, since geo.py lines 280 and 312 tell a missing key from a null
CountyEntry(name, region, lon, lat) == [name |-> name, region |-> region, lon |-> lon, lat |-> lat]

\* an entry whose region is a string
MkCounty(name, region, lon, lat) == CountyEntry(name, JsonString(region), lon, lat)

\* an entry of the configuration without the key "region"
MkCountyNoRegion(name, lon, lat) == CountyEntry(name, Missing, lon, lat)

\* an entry of the configuration with "region": null
MkCountyNullRegion(name, lon, lat) == CountyEntry(name, JsonNull, lon, lat)

\* geo.py lines 146, 187, 283 and 312: not name, for a name that is missing
\* or empty
NoName(county) == county.name = None \/ county.name[1] = <<>>

CountiesConfig ==
    <<MkCounty(Some(Hinds), "Central", Some(2), Some(2)),
      MkCounty(Some(<<>>), "Central", Some(2), Some(2)),
      MkCounty(Some(Rankin), "Central", Some(6), Some(2)),
      MkCounty(Some(DeSoto), "Northwest", Some(2), Some(8)),
      MkCounty(None, "Delta", Some(6), Some(8)),
      MkCounty(Some(Yazoo), "Delta", Some(6), Some(8)),
      MkCounty(Some(Adams), "Delta", None, None)>>

CountiesGeojson ==
    <<[name |-> Some(Hinds), geometry |-> Some(<<0, 0, 4, 4>>)],
      [name |-> Some(<<>>), geometry |-> Some(<<0, 0, 4, 4>>)],
      [name |-> Some(Rankin), geometry |-> Some(<<4, 0, 8, 4>>)],
      [name |-> Some(DeSoto), geometry |-> Some(<<0, 6, 4, 10>>)],
      [name |-> None, geometry |-> Some(<<0, 0, 10, 10>>)],
      [name |-> Some(Adams), geometry |-> None],
      [name |-> Some(Lincoln), geometry |-> Some(<<0, 0>>)],
      [name |-> Some(Yazoo), geometry |-> Some(<<4, 6, 8, 10>>)]>>

----------------------------------------------------------------------------
(* geo.py: the resolution of one polygon to counties.                      *)

\* line 187: the county is tested, having lat, lon and a name that is not
\* empty
Tested(county) == county.lat # None /\ county.lon # None /\ ~NoName(county)

\* intersect_counties_with_point_check raises when point_in_polygon does,
\* which it calls for every county that is tested
point_check_raises(polygon_rings, counties) ==
    \E n \in 1..Len(counties) :
        /\ Tested(counties[n])
        /\ pip_raises(<<counties[n].lon[1], counties[n].lat[1]>>, polygon_rings)

\* the loop of intersect_counties_with_point_check from county n on
RECURSIVE PointCheckLoop(_, _, _)
PointCheckLoop(polygon_rings, counties, n) ==
    IF n > Len(counties)
    THEN <<>>
    ELSE LET county == counties[n]
             hit == /\ Tested(county)
                    /\ point_in_polygon(<<county.lon[1], county.lat[1]>>, polygon_rings)
         IN  (IF hit THEN <<county.name[1]>> ELSE <<>>)
                 \o PointCheckLoop(polygon_rings, counties, n + 1)

\* the mutant of intersect_counties_with_point_check: a centroid inside a
\* later ring of the polygon, a hole, is not in the polygon
RECURSIVE PointCheckLoop_holes(_, _, _)
PointCheckLoop_holes(polygon_rings, counties, n) ==
    IF n > Len(counties)
    THEN <<>>
    ELSE LET county == counties[n]
             hit == /\ Tested(county)
                    /\ point_in_polygon(<<county.lon[1], county.lat[1]>>, polygon_rings)
                    /\ \A r \in 2..Len(polygon_rings) :
                          ~point_in_polygon(<<county.lon[1], county.lat[1]>>, <<polygon_rings[r]>>)
         IN  (IF hit THEN <<county.name[1]>> ELSE <<>>)
                 \o PointCheckLoop_holes(polygon_rings, counties, n + 1)

intersect_counties_with_point_check_holes(polygon_rings, counties) ==
    PointCheckLoop_holes(polygon_rings, counties, 1)

intersect_counties_with_point_check(polygon_rings, counties) ==
    PointCheckLoop(polygon_rings, counties, 1)

\* shapely: Polygon(...) raises on a ring with a vertex of fewer than two
\* coordinates and on an outer ring of fewer than three vertices
ShapelyRaises(polygon_rings) ==
    \/ polygon_rings = <<>>
    \/ Len(polygon_rings[1]) < 3
    \/ \E r \in 1..Len(polygon_rings) : \E n \in 1..Len(polygon_rings[r]) :
            Len(polygon_rings[r][n]) < 2

\* the bounding box of a ring; the rings of the model are axis-aligned
\* rectangles, which fill their bounding box
MinOf(S) == CHOOSE a \in S : \A b \in S : a <= b

MaxOf(S) == CHOOSE a \in S : \A b \in S : a >= b

BoxOf(ring) ==
    <<MinOf({ring[n][1] : n \in 1..Len(ring)}), MinOf({ring[n][2] : n \in 1..Len(ring)}),
      MaxOf({ring[n][1] : n \in 1..Len(ring)}), MaxOf({ring[n][2] : n \in 1..Len(ring)})>>

\* two closed boxes share a point
BoxesMeet(a, b) == a[1] <= b[3] /\ b[1] <= a[3] /\ a[2] <= b[4] /\ b[2] <= a[4]

\* box a lies in the interior of box b
BoxInsideOpen(a, b) == b[1] < a[1] /\ a[3] < b[3] /\ b[2] < a[2] /\ a[4] < b[4]

\* shapely: county_shape.intersects(outlook_poly) for Polygon(rings[0], rings[1:])
ShapelyIntersects(box, polygon_rings) ==
    /\ BoxesMeet(box, BoxOf(polygon_rings[1]))
    /\ \A r \in 2..Len(polygon_rings) : ~BoxInsideOpen(box, BoxOf(polygon_rings[r]))

\* line 153: shape(geom) raises on a geometry that is not a boundary, and
\* the feature is passed over (lines 155-156)
ShapeRaises(geom) == Len(geom) # 4

\* lines 141-156: the loop over the features from feature n on; a feature
\* without a name (line 145), without a geometry (line 149) or with a
\* geometry shape() rejects gives nothing
RECURSIVE ShapelyLoop(_, _, _)
ShapelyLoop(polygon_rings, features, n) ==
    IF n > Len(features)
    THEN <<>>
    ELSE LET feature == features[n]
             hit == /\ ~NoName(feature)
                    /\ feature.geometry # None
                    /\ ~ShapeRaises(feature.geometry[1])
                    /\ ShapelyIntersects(feature.geometry[1], polygon_rings)
         IN  (IF hit THEN <<feature.name[1]>> ELSE <<>>)
                 \o ShapelyLoop(polygon_rings, features, n + 1)

\* every exception is caught and gives the empty list (lines 161-163); the
\* polygons of the model that shapely builds are valid (rectangles, with a
\* hole inside the outer ring or without), so the repair of lines 136-137
\* does not apply to them
intersect_counties_with_polygon_shapely(polygon_rings, counties_geojson) ==
    IF ShapelyRaises(polygon_rings)
    THEN <<>>
    ELSE ShapelyLoop(polygon_rings, counties_geojson, 1)

----------------------------------------------------------------------------
(* geo.py: get_counties_in_outlook.  A polygon is a record of risk (the    *)
(* key of an SPC polygon), category (the key of an ERO polygon) and rings; *)
(* a missing key is <<>>.  env is the record of SHAPELY_AVAILABLE and of   *)
(* counties_geojson (<<>> for None).                                       *)

MkSpcPolygon(risk, rings) == [risk |-> Some(risk), category |-> None, rings |-> rings]

MkEroPolygon(category, rings) == [risk |-> None, category |-> Some(category), rings |-> rings]

\* line 217: risk = polygon_data.get("risk") or polygon_data.get("category");
\* an enum member is truthy, NONE included
PolygonRisk(polygon_data) ==
    IF polygon_data.risk # None THEN polygon_data.risk ELSE polygon_data.category

\* line 219
Skipped(polygon_data) == polygon_data.rings = <<>> \/ PolygonRisk(polygon_data) = None

\* line 223
Precise(env) == env.shapely /\ env.geojson # None

\* lines 223-227
CountiesHit(polygon_data, env, counties_config) ==
    IF Precise(env)
    THEN intersect_counties_with_polygon_shapely(polygon_data.rings, env.geojson[1])
    ELSE intersect_counties_with_point_check(polygon_data.rings, counties_config)

\* the iteration for this polygon raises
PolygonRaises(polygon_data, env, counties_config) ==
    /\ ~Skipped(polygon_data)
    /\ ~Precise(env)
    /\ point_check_raises(polygon_data.rings, counties_config)

\* the mutant of UpgradeCounty: the risk of the last polygon wins
UpgradeCounty_last_wins(county_risks, county, risk) ==
    [c \in DOMAIN county_risks \cup {county} |-> IF c = county THEN risk ELSE county_risks[c]]

\* the mutant of UpgradeCounty: a county is given a risk only to replace one
UpgradeCounty_known_only(county_risks, county, risk) ==
    IF county \in DOMAIN county_risks /\ should_upgrade_risk(county_risks[county], risk)
    THEN [county_risks EXCEPT ![county] = risk]
    ELSE county_risks

\* lines 231-233
UpgradeCounty(county_risks, county, risk) ==
    IF county \notin DOMAIN county_risks \/ should_upgrade_risk(county_risks[county], risk)
    THEN [c \in DOMAIN county_risks \cup {county} |-> IF c = county THEN risk ELSE county_risks[c]]
    ELSE county_risks

\* lines 230-233: the loop over counties_hit from n on
RECURSIVE UpgradeLoop(_, _, _, _)
UpgradeLoop(county_risks, counties_hit, risk, n) ==
    IF n > Len(counties_hit)
    THEN county_risks
    ELSE UpgradeLoop(UpgradeCounty(county_risks, counties_hit[n], risk), counties_hit, risk, n + 1)

\* lines 216-233: one iteration that does not raise
FoldPolygon(county_risks, polygon_data, env, counties_config) ==
    IF Skipped(polygon_data)
    THEN county_risks
    ELSE UpgradeLoop(county_risks, CountiesHit(polygon_data, env, counties_config),
                     PolygonRisk(polygon_data)[1], 1)

EmptyDict == [c \in {} |-> None]

\* get_counties_in_outlook raises
get_counties_in_outlook_raises(outlook_polygons, env, counties_config) ==
    \E n \in 1..Len(outlook_polygons) : PolygonRaises(outlook_polygons[n], env, counties_config)

RECURSIVE FoldFrom(_, _, _, _, _)
FoldFrom(county_risks, outlook_polygons, env, counties_config, n) ==
    IF n > Len(outlook_polygons)
    THEN county_risks
    ELSE FoldFrom(FoldPolygon(county_risks, outlook_polygons[n], env, counties_config),
                  outlook_polygons, env, counties_config, n + 1)

\* the dict get_counties_in_outlook returns when it does not raise
get_counties_in_outlook(outlook_polygons, env, counties_config) ==
    FoldFrom(EmptyDict, outlook_polygons, env, counties_config, 1)

\* A dict keeps its keys in the order of their first insertion.  Line 233
\* inserts a county when it is hit for the first time: the keys after the
\* counties of counties_hit from n on
RECURSIVE InsertKeys(_, _, _)
InsertKeys(keys, counties_hit, n) ==
    IF n > Len(counties_hit)
    THEN keys
    ELSE InsertKeys(IF counties_hit[n] \in Range(keys) THEN keys ELSE Append(keys, counties_hit[n]),
                    counties_hit, n + 1)

\* the keys of county_risks after the polygons from n on
RECURSIVE KeysFrom(_, _, _, _, _)
KeysFrom(keys, outlook_polygons, env, counties_config, n) ==
    IF n > Len(outlook_polygons)
    THEN keys
    ELSE KeysFrom(IF Skipped(outlook_polygons[n])
                  THEN keys
                  ELSE InsertKeys(keys, CountiesHit(outlook_polygons[n], env, counties_config), 1),
                  outlook_polygons, env, counties_config, n + 1)

\* county_risks.items() of the dict get_counties_in_outlook returns: the
\* pairs of key and value in the order of the keys
county_risks_items(outlook_polygons, env, counties_config) ==
    LET keys == KeysFrom(<<>>, outlook_polygons, env, counties_config, 1)
        county_risks == get_counties_in_outlook(outlook_polygons, env, counties_config)
    IN  [n \in 1..Len(keys) |-> <<keys[n], county_risks[keys[n]]>>]

----------------------------------------------------------------------------
(* geo.py: get_highest_risk_by_region, and the region loop of              *)
(* build_regional_summaries (analyze.py).                                  *)

\* geo.py line 280: county.get("region", "Unknown"), the default for a
\* missing key alone: a null that stands under the key is what get returns
CountyRegion(county) ==
    IF county.region.kind = "missing" THEN JsonString("Unknown") ELSE county.region

\* geo.py lines 280-288: one iteration of get_counties_by_region
AddCounty(by_region, county) ==
    IF NoName(county)
    THEN by_region
    ELSE [region \in DOMAIN by_region \cup {CountyRegion(county)} |->
             IF region = CountyRegion(county)
             THEN Append(IF region \in DOMAIN by_region THEN by_region[region] ELSE <<>>,
                         county.name[1])
             ELSE by_region[region]]

\* geo.py lines 279-288: the loop from entry n on
RECURSIVE ByRegionFrom(_, _, _)
ByRegionFrom(by_region, counties, n) ==
    IF n > Len(counties)
    THEN by_region
    ELSE ByRegionFrom(AddCounty(by_region, counties[n]), counties, n + 1)

get_counties_by_region(counties) == ByRegionFrom([region \in {} |-> <<>>], counties, 1)

\* analyze.py line 157: counties_by_region.get(region, [])
RegionCounties(counties, region) == DictGet(get_counties_by_region(counties), region, <<>>)

\* line 312: the dict comprehension reads c["region"] of every entry with
\* a name that is not empty, and raises KeyError on one without the key; a
\* null under the key is read as None
get_highest_risk_by_region_raises(counties) ==
    \E n \in 1..Len(counties) : ~NoName(counties[n]) /\ counties[n].region.kind = "missing"

\* lines 312 and 315: county_to_region.get(county, "Unknown") when the
\* comprehension has not raised; an entry without a name or with the empty
\* name is left out, and a later entry of a name replaces an earlier one
CountyToRegion(counties, county) ==
    LET entries == {n \in 1..Len(counties) :
                       ~NoName(counties[n]) /\ counties[n].name = Some(county)}
    IN  IF entries = {} THEN JsonString("Unknown") ELSE counties[MaxOf(entries)].region

\* lines 314-319: the loop over county_risks.items(), the pairs of county
\* and risk in the order of the dict, from item n on
RECURSIVE RegionRisksOver(_, _, _, _)
RegionRisksOver(region_risks, items, n, counties) ==
    IF n > Len(items)
    THEN region_risks
    ELSE LET region == CountyToRegion(counties, items[n][1])
             risk == items[n][2]
             updated ==
                 IF region \notin DOMAIN region_risks
                    \/ should_upgrade_risk(region_risks[region], risk)
                 THEN [r \in DOMAIN region_risks \cup {region} |->
                          IF r = region THEN risk ELSE region_risks[r]]
                 ELSE region_risks
         IN  RegionRisksOver(updated, items, n + 1, counties)

\* the dict get_highest_risk_by_region returns when it does not raise;
\* county_risks is given by its items
get_highest_risk_by_region(county_risks, counties) ==
    RegionRisksOver([r \in {} |-> None], county_risks, 1, counties)

\* the position of a value in the list risk_order / ero_order (lines 166, 171)
risk_order == <<SPC("NONE"), SPC("TSTM"), SPC("MRGL"), SPC("SLGT"), SPC("ENH"), SPC("MDT"), SPC("HIGH")>>

ero_order == <<ERO("NONE"), ERO("MRGL"), ERO("SLGT"), ERO("MDT"), ERO("HIGH")>>

IndexIn(order, v) == CHOOSE n \in 1..Len(order) : order[n] = v

\* the mutant of RegionMaxFrom: the risk of the last member county wins
RECURSIVE RegionMaxFrom_last(_, _, _, _, _, _)
RegionMaxFrom_last(region_counties, county_risks, order, enum, max_risk, n) ==
    IF n > Len(region_counties)
    THEN max_risk
    ELSE RegionMaxFrom_last(region_counties, county_risks, order, enum,
                            DictGet(county_risks, region_counties[n], order[1]), n + 1)

\* lines 161-173 for one of the two scales: the loop over region_counties
\* from n on; enum is the class of the isinstance test
RECURSIVE RegionMaxFrom(_, _, _, _, _, _)
RegionMaxFrom(region_counties, county_risks, order, enum, max_risk, n) ==
    IF n > Len(region_counties)
    THEN max_risk
    ELSE LET county_risk == DictGet(county_risks, region_counties[n], order[1])
             next_max == IF county_risk \in enum
                            /\ IndexIn(order, county_risk) > IndexIn(order, max_risk)
                         THEN county_risk
                         ELSE max_risk
         IN  RegionMaxFrom(region_counties, county_risks, order, enum, next_max, n + 1)

\* max_spc of lines 158-168
RegionMaxSpc(region_counties, spc_county_risks) ==
    RegionMaxFrom(region_counties, spc_county_risks, risk_order, SPCRisk, SPC("NONE"), 1)

\* max_ero of lines 159-173
RegionMaxEro(region_counties, ero_county_risks) ==
    RegionMaxFrom(region_counties, ero_county_risks, ero_order, EROCategory, ERO("NONE"), 1)

----------------------------------------------------------------------------
(* SpecGeo: a list of polygons of one hazard type and the environment are  *)
(* drawn; get_counties_in_outlook processes one polygon per step, and the  *)
(* region risks are computed from the dict it returns.                     *)

\* the longest list of polygons drawn
MaxPolygons == 3

RingA == Rect(1, 1, 3, 3)

RingAB == Rect(1, 1, 7, 3)

RingEdge == Rect(3, 3, 5, 5)

RingAll == Rect(0, 0, 10, 10)

RingTwoPoints == <<<<1, 1>>, <<3, 3>>>>

RingShortVertex == <<<<1, 1>>, <<7>>, <<7, 3>>, <<1, 1>>>>

RingsWithHole == <<Rect(-2, -2, 12, 12), Rect(-1, -1, 5, 5)>>

SpcPolygons ==
    {MkSpcPolygon(SPC("SLGT"), <<RingA>>),
     MkSpcPolygon(SPC("MRGL"), <<RingAB>>),
     MkSpcPolygon(SPC("TSTM"), RingsWithHole),
     MkSpcPolygon(SPC("ENH"), <<RingEdge>>),
     MkSpcPolygon(SPC("MDT"), <<RingTwoPoints>>),
     MkSpcPolygon(SPC("HIGH"), <<>>)}

EroPolygons ==
    {MkEroPolygon(ERO("SLGT"), <<RingA>>),
     MkEroPolygon(ERO("MRGL"), <<RingAB>>),
     MkEroPolygon(ERO("NONE"), <<RingAll>>),
     MkEroPolygon(ERO("HIGH"), <<RingShortVertex>>)}

\* SHAPELY_AVAILABLE with the county boundaries loaded, and the two ways
\* in which the precise strategy is not available
GeoEnvs ==
    {[shapely |-> TRUE, geojson |-> Some(CountiesGeojson)],
     [shapely |-> TRUE, geojson |-> None],
     [shapely |-> FALSE, geojson |-> Some(CountiesGeojson)]}

InitGeo ==
    /\ geo_polys \in SeqsUpTo(SpcPolygons, MaxPolygons) \cup SeqsUpTo(EroPolygons, MaxPolygons)
    /\ geo_env \in GeoEnvs
    /\ geo_k = 0
    /\ geo_risks = EmptyDict
    /\ geo_pc = "loop"
    /\ geo_regions = None

IdleGeo ==
    /\ geo_polys = <<>>
    /\ geo_env = None
    /\ geo_k = 0
    /\ geo_risks = EmptyDict
    /\ geo_pc = "idle"
    /\ geo_regions = None

\* one iteration of "for polygon_data in outlook_polygons" that completes
ProcessPolygon ==
    /\ geo_pc = "loop"
    /\ geo_k < Len(geo_polys)
    /\ ~PolygonRaises(geo_polys[geo_k + 1], geo_env, CountiesConfig)
    /\ geo_risks' = FoldPolygon(geo_risks, geo_polys[geo_k + 1], geo_env, CountiesConfig)
    /\ geo_k' = geo_k + 1
    /\ UNCHANGED <<geo_polys, geo_env, geo_pc, geo_regions>>

\* an iteration in which point_in_polygon raises IndexError
PolygonIndexError ==
    /\ geo_pc = "loop"
    /\ geo_k < Len(geo_polys)
    /\ PolygonRaises(geo_polys[geo_k + 1], geo_env, CountiesConfig)
    /\ geo_pc' = "raised"
    /\ UNCHANGED <<geo_polys, geo_env, geo_k, geo_risks, geo_regions>>

\* return county_risks
ReturnCountyRisks ==
    /\ geo_pc = "loop"
    /\ geo_k = Len(geo_polys)
    /\ geo_pc' = "returned"
    /\ UNCHANGED <<geo_polys, geo_env, geo_k, geo_risks, geo_regions>>

RegionNames == {CountiesConfig[n].region : n \in 1..Len(CountiesConfig)}

\* the region risks of the returned dict: by get_highest_risk_by_region, and
\* by the loop of build_regional_summaries for every region of the config
RollUp ==
    /\ geo_pc = "returned"
    /\ IF get_highest_risk_by_region_raises(CountiesConfig)
       THEN /\ geo_regions' = geo_regions
            /\ geo_pc' = "roll_up_raised"
       ELSE /\ geo_regions' =
                  Some([by_region |-> get_highest_risk_by_region(
                                         county_risks_items(geo_polys, geo_env, CountiesConfig),
                                         CountiesConfig),
                        max_spc |-> [r \in RegionNames |->
                                       RegionMaxSpc(RegionCounties(CountiesConfig, r), geo_risks)],
                        max_ero |-> [r \in RegionNames |->
                                       RegionMaxEro(RegionCounties(CountiesConfig, r), geo_risks)]])
            /\ geo_pc' = "rolled_up"
    /\ UNCHANGED <<geo_polys, geo_env, geo_k, geo_risks>>

----------------------------------------------------------------------------
(* fetch_nws.py: get_alert_counties.  An alert is a record; the function   *)
(* reads its affected_counties alone.                                      *)

\* every token of every alert, as a set
AllTokens(alerts_) == UNION {Range(alerts_[n].affected_counties) : n \in 1..Len(alerts_)}

\* the mutant of get_alert_counties: the tokens are not stripped
get_alert_counties_no_strip(alerts_) ==
    sorted({county \in AllTokens(alerts_) : county # <<>>})

get_alert_counties(alerts_) ==
    sorted({strip(county) : county \in AllTokens(alerts_)} \ {<<>>})

----------------------------------------------------------------------------
(* SpecAlerts: a list of alerts of a catalogue is drawn, and               *)
(* get_alert_counties is applied.                                          *)

\* the longest list of alerts drawn
MaxAlerts == 3

\* an Alert with the fields the analysis reads.  The event is what
\* props.get("event", "Unknown") has given (fetch_nws.py line 116): a
\* string, or the None of a JSON null, or a number
AlertOf(event, tokens) == [event |-> event, affected_counties |-> tokens]

\* an Alert whose event is a string
MkAlert(event, tokens) == AlertOf(JsonString(event), tokens)

\* tests/test_nws.py test_sorted_output, one alert per token of it, tokens
\* with surrounding blanks, blank and empty tokens, tokens with the
\* separators chr(28) and chr(31) around, an alert without tokens
AlertCatalog ==
    {MkAlert("Test", <<Yazoo, Adams, Lincoln>>),
     MkAlert("Test", <<Yazoo>>),
     MkAlert("Test", <<Adams>>),
     MkAlert("Test", <<Lincoln>>),
     MkAlert("Test", <<Blank \o Adams \o Blank, <<>>>>),
     MkAlert("Test", <<Blank, Hinds, Yazoo \o Blank>>),
     MkAlert("Test", <<<<28>> \o Adams, Hinds \o <<31>>>>),
     MkAlert("Test", <<>>)}

InitAlerts ==
    /\ gac_in \in SeqsUpTo(AlertCatalog, MaxAlerts)
    /\ gac_out = None

IdleAlerts ==
    /\ gac_in = None
    /\ gac_out = None

CallGetAlertCounties ==
    /\ gac_out = None
    /\ gac_out' = Some(get_alert_counties(gac_in))
    /\ UNCHANGED gac_in

----------------------------------------------------------------------------
(* analyze.py: extract_daily_forecasts.  A period is a record with the     *)
(* fields the function reads: name, shortForecast, temperature (optional), *)
(* isDaytime and pop, the optional "value" of probabilityOfPrecipitation   *)
(* (<<>> when the key, the dict or the value is missing).  A DayForecast   *)
(* is a record of day_name, conditions, high_temp, low_temp and pop.       *)

\* the cap on the number of entries (line 61)
DailyCap == 7

\* periods[i] for the 0-based i of the code
At(periods, i) == periods[i + 1]

\* lines 62-86: the entry built from the current period alone
SingleEntry(period) ==
    [day_name   |-> Replace(Replace(period.name, SpaceNight, <<>>), Tonight, Today),
     conditions |-> Some(period.shortForecast),
     high_temp  |-> IF period.isDaytime THEN period.temperature ELSE None,
     low_temp   |-> IF period.isDaytime THEN None ELSE period.temperature,
     pop        |-> period.pop]

\* line 94: the next period is the night of the current day
NightFollows(period, next_period) ==
    period.isDaytime /\ (Contains(next_period.name, Night) \/ next_period.name = Tonight)

\* line 105: the next period is a day after the current night
DayFollows(period, next_period) ==
    ~period.isDaytime /\ ~Contains(next_period.name, Night)

\* lines 98-101: the night value replaces the entry's when it is truthy
\* and the entry has none or a smaller one
NightPop(day_pop, next_pop) ==
    IF next_pop # None /\ next_pop[1] # 0 /\ (day_pop = None \/ next_pop[1] > day_pop[1])
    THEN next_pop
    ELSE day_pop

\* lines 95-101
DayNightEntry(day_forecast, next_period) ==
    [day_forecast EXCEPT !.low_temp = next_period.temperature,
                         !.pop = NightPop(day_forecast.pop, next_period.pop)]

\* the mutant of NightDayEntry: the conditions of the night are kept
NightDayEntry_own_conditions(day_forecast, next_period) ==
    [day_forecast EXCEPT !.high_temp = next_period.temperature]

\* lines 106-107
NightDayEntry(day_forecast, next_period) ==
    [day_forecast EXCEPT !.high_temp = next_period.temperature,
                         !.conditions = Some(next_period.shortForecast)]

\* which branch of lines 89-108 the iteration at i takes
Rule(periods, i) ==
    IF i + 1 < Len(periods)
    THEN IF NightFollows(At(periods, i), At(periods, i + 1)) THEN "day_night"
         ELSE IF DayFollows(At(periods, i), At(periods, i + 1)) THEN "night_day"
         ELSE "single"
    ELSE "single"

\* the entry appended by the iteration at i (lines 62-110)
EdfEntry(periods, i) ==
    CASE Rule(periods, i) = "day_night" ->
            DayNightEntry(SingleEntry(At(periods, i)), At(periods, i + 1))
      [] Rule(periods, i) = "night_day" ->
            NightDayEntry(SingleEntry(At(periods, i)), At(periods, i + 1))
      [] OTHER -> SingleEntry(At(periods, i))

\* the mutant of EdfAdvance: the paired period is not skipped
EdfAdvance_no_skip(periods, i) == i + 1

\* the value of i after the iteration at i (lines 103, 108, 111)
EdfAdvance(periods, i) == IF Rule(periods, i) = "single" THEN i + 1 ELSE i + 2

\* the loop from i on
RECURSIVE EdfLoop(_, _, _)
EdfLoop(periods, i, daily_forecasts) ==
    IF i < Len(periods) /\ Len(daily_forecasts) < DailyCap
    THEN EdfLoop(periods, EdfAdvance(periods, i), Append(daily_forecasts, EdfEntry(periods, i)))
    ELSE daily_forecasts

extract_daily_forecasts(periods) == EdfLoop(periods, 0, <<>>)

----------------------------------------------------------------------------
(* SpecForecast: a list of periods is drawn, and the loop of               *)
(* extract_daily_forecasts runs one iteration per step.                    *)

\* the longest list of freely drawn periods
MaxPeriods == 3

\* the forecast horizon of the regular period lists, in periods
HorizonPeriods == 16

MkPeriod(name, isDaytime, shortForecast, temperature, pop) ==
    [name |-> name, isDaytime |-> isDaytime, shortForecast |-> shortForecast,
     temperature |-> Some(temperature), pop |-> pop]

PopValues == {None, Some(0), Some(20), Some(40)}

\* a daytime period has a day's name and a nighttime period a night's
PeriodSet ==
    UNION {{MkPeriod(Today, TRUE, "Sunny", 75, pop),
            MkPeriod(Tonight, FALSE, "Clear", 55, pop),
            MkPeriod(Monday, TRUE, "Showers", 80, pop),
            MkPeriod(MondayNight, FALSE, "Cloudy", 60, pop)} : pop \in PopValues}

\* a regular forecast: days and nights alternate, from a day or from a night
RegularPeriods(first_is_day, n) ==
    [k \in 1..n |->
        IF (k % 2 = 1) = first_is_day
        THEN MkPeriod(Monday, TRUE, "Showers", 80, Some(20))
        ELSE MkPeriod(MondayNight, FALSE, "Cloudy", 60, Some(40))]

PeriodLists ==
    SeqsUpTo(PeriodSet, MaxPeriods)
        \cup {RegularPeriods(d, n) : d \in BOOLEAN, n \in (HorizonPeriods - 3)..HorizonPeriods}

InitForecast ==
    /\ edf_periods \in PeriodLists
    /\ edf_i = 0
    /\ edf_out = <<>>
    /\ edf_starts = <<>>
    /\ edf_pc = "loop"

IdleForecast ==
    /\ edf_periods = <<>>
    /\ edf_i = 0
    /\ edf_out = <<>>
    /\ edf_starts = <<>>
    /\ edf_pc = "idle"

LoopGuard == edf_i < Len(edf_periods) /\ Len(edf_out) < DailyCap

\* one iteration of the while loop
LoopIteration ==
    /\ edf_pc = "loop"
    /\ LoopGuard
    /\ edf_out' = Append(edf_out, EdfEntry(edf_periods, edf_i))
    /\ edf_starts' = Append(edf_starts, edf_i)
    /\ edf_i' = EdfAdvance(edf_periods, edf_i)
    /\ UNCHANGED <<edf_periods, edf_pc>>

\* the loop ends and daily_forecasts is returned
ReturnForecasts ==
    /\ edf_pc = "loop"
    /\ ~LoopGuard
    /\ edf_pc' = "returned"
    /\ UNCHANGED <<edf_periods, edf_i, edf_out, edf_starts>>

----------------------------------------------------------------------------
(* str.lower() and str.upper().  Python maps every character by the        *)
(* Unicode character database of the interpreter (version 14.0.0); the     *)
(* tables below are that mapping for the characters from 128 on.  A run    *)
(* <<first, last, step, delta>> maps the characters first, first + step,   *)
(* ..., last to themselves plus delta.                                     *)

InRun(c, run) == c >= run[1] /\ c <= run[2] /\ (c - run[1]) % run[3] = 0

\* the character c mapped by the run of the table that holds it, or c
MapByRuns(c, runs) ==
    LET hits == {n \in 1..Len(runs) : InRun(c, runs[n])}
    IN  IF hits = {} THEN c ELSE c + runs[CHOOSE n \in hits : TRUE][4]

\* c is in one of the intervals <<first, last>>
InIntervals(c, intervals) ==
    \E n \in 1..Len(intervals) : c >= intervals[n][1] /\ c <= intervals[n][2]

\* the characters whose lower case is one other character
LowerRuns ==
  <<
     <<192, 214, 1, 32>>, <<216, 222, 1, 32>>, <<256, 302, 2, 1>>,
     <<306, 310, 2, 1>>, <<313, 327, 2, 1>>, <<330, 374, 2, 1>>,
     <<376, 376, 1, -121>>, <<377, 381, 2, 1>>, <<385, 385, 1, 210>>,
     <<386, 388, 2, 1>>, <<390, 390, 1, 206>>, <<391, 391, 1, 1>>,
     <<393, 394, 1, 205>>, <<395, 395, 1, 1>>, <<398, 398, 1, 79>>,
     <<399, 399, 1, 202>>, <<400, 400, 1, 203>>, <<401, 401, 1, 1>>,
     <<403, 403, 1, 205>>, <<404, 404, 1, 207>>, <<406, 406, 1, 211>>,
     <<407, 407, 1, 209>>, <<408, 408, 1, 1>>, <<412, 412, 1, 211>>,
     <<413, 413, 1, 213>>, <<415, 415, 1, 214>>, <<416, 420, 2, 1>>,
     <<422, 422, 1, 218>>, <<423, 423, 1, 1>>, <<425, 425, 1, 218>>,
     <<428, 428, 1, 1>>, <<430, 430, 1, 218>>, <<431, 431, 1, 1>>,
     <<433, 434, 1, 217>>, <<435, 437, 2, 1>>, <<439, 439, 1, 219>>,
     <<440, 440, 1, 1>>, <<444, 444, 1, 1>>, <<452, 452, 1, 2>>,
     <<453, 453, 1, 1>>, <<455, 455, 1, 2>>, <<456, 456, 1, 1>>,
     <<458, 458, 1, 2>>, <<459, 475, 2, 1>>, <<478, 494, 2, 1>>,
     <<497, 497, 1, 2>>, <<498, 500, 2, 1>>, <<502, 502, 1, -97>>,
     <<503, 503, 1, -56>>, <<504, 542, 2, 1>>, <<544, 544, 1, -130>>,
     <<546, 562, 2, 1>>, <<570, 570, 1, 10795>>, <<571, 571, 1, 1>>,
     <<573, 573, 1, -163>>, <<574, 574, 1, 10792>>, <<577, 577, 1, 1>>,
     <<579, 579, 1, -195>>, <<580, 580, 1, 69>>, <<581, 581, 1, 71>>,
     <<582, 590, 2, 1>>, <<880, 882, 2, 1>>, <<886, 886, 1, 1>>,
     <<895, 895, 1, 116>>, <<902, 902, 1, 38>>, <<904, 906, 1, 37>>,
     <<908, 908, 1, 64>>, <<910, 911, 1, 63>>, <<913, 929, 1, 32>>,
     <<932, 939, 1, 32>>, <<975, 975, 1, 8>>, <<984, 1006, 2, 1>>,
     <<1012, 1012, 1, -60>>, <<1015, 1015, 1, 1>>, <<1017, 1017, 1, -7>>,
     <<1018, 1018, 1, 1>>, <<1021, 1023, 1, -130>>, <<1024, 1039, 1, 80>>,
     <<1040, 1071, 1, 32>>, <<1120, 1152, 2, 1>>, <<1162, 1214, 2, 1>>,
     <<1216, 1216, 1, 15>>, <<1217, 1229, 2, 1>>, <<1232, 1326, 2, 1>>,
     <<1329, 1366, 1, 48>>, <<4256, 4293, 1, 7264>>,
     <<4295, 4295, 1, 7264>>, <<4301, 4301, 1, 7264>>,
     <<5024, 5103, 1, 38864>>, <<5104, 5109, 1, 8>>,
     <<7312, 7354, 1, -3008>>, <<7357, 7359, 1, -3008>>,
     <<7680, 7828, 2, 1>>, <<7838, 7838, 1, -7615>>, <<7840, 7934, 2, 1>>,
     <<7944, 7951, 1, -8>>, <<7960, 7965, 1, -8>>, <<7976, 7983, 1, -8>>,
     <<7992, 7999, 1, -8>>, <<8008, 8013, 1, -8>>, <<8025, 8031, 2, -8>>,
     <<8040, 8047, 1, -8>>, <<8072, 8079, 1, -8>>, <<8088, 8095, 1, -8>>,
     <<8104, 8111, 1, -8>>, <<8120, 8121, 1, -8>>, <<8122, 8123, 1, -74>>,
     <<8124, 8124, 1, -9>>, <<8136, 8139, 1, -86>>, <<8140, 8140, 1, -9>>,
     <<8152, 8153, 1, -8>>, <<8154, 8155, 1, -100>>, <<8168, 8169, 1, -8>>,
     <<8170, 8171, 1, -112>>, <<8172, 8172, 1, -7>>,
     <<8184, 8185, 1, -128>>, <<8186, 8187, 1, -126>>,
     <<8188, 8188, 1, -9>>, <<8486, 8486, 1, -7517>>,
     <<8490, 8490, 1, -8383>>, <<8491, 8491, 1, -8262>>,
     <<8498, 8498, 1, 28>>, <<8544, 8559, 1, 16>>, <<8579, 8579, 1, 1>>,
     <<9398, 9423, 1, 26>>, <<11264, 11311, 1, 48>>,
     <<11360, 11360, 1, 1>>, <<11362, 11362, 1, -10743>>,
     <<11363, 11363, 1, -3814>>, <<11364, 11364, 1, -10727>>,
     <<11367, 11371, 2, 1>>, <<11373, 11373, 1, -10780>>,
     <<11374, 11374, 1, -10749>>, <<11375, 11375, 1, -10783>>,
     <<11376, 11376, 1, -10782>>, <<11378, 11378, 1, 1>>,
     <<11381, 11381, 1, 1>>, <<11390, 11391, 1, -10815>>,
     <<11392, 11490, 2, 1>>, <<11499, 11501, 2, 1>>,
     <<11506, 11506, 1, 1>>, <<42560, 42604, 2, 1>>,
     <<42624, 42650, 2, 1>>, <<42786, 42798, 2, 1>>,
     <<42802, 42862, 2, 1>>, <<42873, 42875, 2, 1>>,
     <<42877, 42877, 1, -35332>>, <<42878, 42886, 2, 1>>,
     <<42891, 42891, 1, 1>>, <<42893, 42893, 1, -42280>>,
     <<42896, 42898, 2, 1>>, <<42902, 42920, 2, 1>>,
     <<42922, 42922, 1, -42308>>, <<42923, 42923, 1, -42319>>,
     <<42924, 42924, 1, -42315>>, <<42925, 42925, 1, -42305>>,
     <<42926, 42926, 1, -42308>>, <<42928, 42928, 1, -42258>>,
     <<42929, 42929, 1, -42282>>, <<42930, 42930, 1, -42261>>,
     <<42931, 42931, 1, 928>>, <<42932, 42946, 2, 1>>,
     <<42948, 42948, 1, -48>>, <<42949, 42949, 1, -42307>>,
     <<42950, 42950, 1, -35384>>, <<42951, 42953, 2, 1>>,
     <<42960, 42960, 1, 1>>, <<42966, 42968, 2, 1>>,
     <<42997, 42997, 1, 1>>, <<65313, 65338, 1, 32>>,
     <<66560, 66599, 1, 40>>, <<66736, 66771, 1, 40>>,
     <<66928, 66938, 1, 39>>, <<66940, 66954, 1, 39>>,
     <<66956, 66962, 1, 39>>, <<66964, 66965, 1, 39>>,
     <<68736, 68786, 1, 64>>, <<71840, 71871, 1, 32>>,
     <<93760, 93791, 1, 32>>, <<125184, 125217, 1, 34>>
  >>

\* the characters whose upper case is one other character
UpperRuns ==
  <<
     <<181, 181, 1, 743>>, <<224, 246, 1, -32>>, <<248, 254, 1, -32>>,
     <<255, 255, 1, 121>>, <<257, 303, 2, -1>>, <<305, 305, 1, -232>>,
     <<307, 311, 2, -1>>, <<314, 328, 2, -1>>, <<331, 375, 2, -1>>,
     <<378, 382, 2, -1>>, <<383, 383, 1, -300>>, <<384, 384, 1, 195>>,
     <<387, 389, 2, -1>>, <<392, 392, 1, -1>>, <<396, 396, 1, -1>>,
     <<402, 402, 1, -1>>, <<405, 405, 1, 97>>, <<409, 409, 1, -1>>,
     <<410, 410, 1, 163>>, <<414, 414, 1, 130>>, <<417, 421, 2, -1>>,
     <<424, 424, 1, -1>>, <<429, 429, 1, -1>>, <<432, 432, 1, -1>>,
     <<436, 438, 2, -1>>, <<441, 441, 1, -1>>, <<445, 445, 1, -1>>,
     <<447, 447, 1, 56>>, <<453, 453, 1, -1>>, <<454, 454, 1, -2>>,
     <<456, 456, 1, -1>>, <<457, 457, 1, -2>>, <<459, 459, 1, -1>>,
     <<460, 460, 1, -2>>, <<462, 476, 2, -1>>, <<477, 477, 1, -79>>,
     <<479, 495, 2, -1>>, <<498, 498, 1, -1>>, <<499, 499, 1, -2>>,
     <<501, 501, 1, -1>>, <<505, 543, 2, -1>>, <<547, 563, 2, -1>>,
     <<572, 572, 1, -1>>, <<575, 576, 1, 10815>>, <<578, 578, 1, -1>>,
     <<583, 591, 2, -1>>, <<592, 592, 1, 10783>>, <<593, 593, 1, 10780>>,
     <<594, 594, 1, 10782>>, <<595, 595, 1, -210>>, <<596, 596, 1, -206>>,
     <<598, 599, 1, -205>>, <<601, 601, 1, -202>>, <<603, 603, 1, -203>>,
     <<604, 604, 1, 42319>>, <<608, 608, 1, -205>>, <<609, 609, 1, 42315>>,
     <<611, 611, 1, -207>>, <<613, 613, 1, 42280>>, <<614, 614, 1, 42308>>,
     <<616, 616, 1, -209>>, <<617, 617, 1, -211>>, <<618, 618, 1, 42308>>,
     <<619, 619, 1, 10743>>, <<620, 620, 1, 42305>>, <<623, 623, 1, -211>>,
     <<625, 625, 1, 10749>>, <<626, 626, 1, -213>>, <<629, 629, 1, -214>>,
     <<637, 637, 1, 10727>>, <<640, 640, 1, -218>>, <<642, 642, 1, 42307>>,
     <<643, 643, 1, -218>>, <<647, 647, 1, 42282>>, <<648, 648, 1, -218>>,
     <<649, 649, 1, -69>>, <<650, 651, 1, -217>>, <<652, 652, 1, -71>>,
     <<658, 658, 1, -219>>, <<669, 669, 1, 42261>>, <<670, 670, 1, 42258>>,
     <<837, 837, 1, 84>>, <<881, 883, 2, -1>>, <<887, 887, 1, -1>>,
     <<891, 893, 1, 130>>, <<940, 940, 1, -38>>, <<941, 943, 1, -37>>,
     <<945, 961, 1, -32>>, <<962, 962, 1, -31>>, <<963, 971, 1, -32>>,
     <<972, 972, 1, -64>>, <<973, 974, 1, -63>>, <<976, 976, 1, -62>>,
     <<977, 977, 1, -57>>, <<981, 981, 1, -47>>, <<982, 982, 1, -54>>,
     <<983, 983, 1, -8>>, <<985, 1007, 2, -1>>, <<1008, 1008, 1, -86>>,
     <<1009, 1009, 1, -80>>, <<1010, 1010, 1, 7>>, <<1011, 1011, 1, -116>>,
     <<1013, 1013, 1, -96>>, <<1016, 1016, 1, -1>>, <<1019, 1019, 1, -1>>,
     <<1072, 1103, 1, -32>>, <<1104, 1119, 1, -80>>, <<1121, 1153, 2, -1>>,
     <<1163, 1215, 2, -1>>, <<1218, 1230, 2, -1>>, <<1231, 1231, 1, -15>>,
     <<1233, 1327, 2, -1>>, <<1377, 1414, 1, -48>>,
     <<4304, 4346, 1, 3008>>, <<4349, 4351, 1, 3008>>,
     <<5112, 5117, 1, -8>>, <<7296, 7296, 1, -6254>>,
     <<7297, 7297, 1, -6253>>, <<7298, 7298, 1, -6244>>,
     <<7299, 7300, 1, -6242>>, <<7301, 7301, 1, -6243>>,
     <<7302, 7302, 1, -6236>>, <<7303, 7303, 1, -6181>>,
     <<7304, 7304, 1, 35266>>, <<7545, 7545, 1, 35332>>,
     <<7549, 7549, 1, 3814>>, <<7566, 7566, 1, 35384>>,
     <<7681, 7829, 2, -1>>, <<7835, 7835, 1, -59>>, <<7841, 7935, 2, -1>>,
     <<7936, 7943, 1, 8>>, <<7952, 7957, 1, 8>>, <<7968, 7975, 1, 8>>,
     <<7984, 7991, 1, 8>>, <<8000, 8005, 1, 8>>, <<8017, 8023, 2, 8>>,
     <<8032, 8039, 1, 8>>, <<8048, 8049, 1, 74>>, <<8050, 8053, 1, 86>>,
     <<8054, 8055, 1, 100>>, <<8056, 8057, 1, 128>>,
     <<8058, 8059, 1, 112>>, <<8060, 8061, 1, 126>>, <<8112, 8113, 1, 8>>,
     <<8126, 8126, 1, -7205>>, <<8144, 8145, 1, 8>>, <<8160, 8161, 1, 8>>,
     <<8165, 8165, 1, 7>>, <<8526, 8526, 1, -28>>, <<8560, 8575, 1, -16>>,
     <<8580, 8580, 1, -1>>, <<9424, 9449, 1, -26>>,
     <<11312, 11359, 1, -48>>, <<11361, 11361, 1, -1>>,
     <<11365, 11365, 1, -10795>>, <<11366, 11366, 1, -10792>>,
     <<11368, 11372, 2, -1>>, <<11379, 11379, 1, -1>>,
     <<11382, 11382, 1, -1>>, <<11393, 11491, 2, -1>>,
     <<11500, 11502, 2, -1>>, <<11507, 11507, 1, -1>>,
     <<11520, 11557, 1, -7264>>, <<11559, 11559, 1, -7264>>,
     <<11565, 11565, 1, -7264>>, <<42561, 42605, 2, -1>>,
     <<42625, 42651, 2, -1>>, <<42787, 42799, 2, -1>>,
     <<42803, 42863, 2, -1>>, <<42874, 42876, 2, -1>>,
     <<42879, 42887, 2, -1>>, <<42892, 42892, 1, -1>>,
     <<42897, 42899, 2, -1>>, <<42900, 42900, 1, 48>>,
     <<42903, 42921, 2, -1>>, <<42933, 42947, 2, -1>>,
     <<42952, 42954, 2, -1>>, <<42961, 42961, 1, -1>>,
     <<42967, 42969, 2, -1>>, <<42998, 42998, 1, -1>>,
     <<43859, 43859, 1, -928>>, <<43888, 43967, 1, -38864>>,
     <<65345, 65370, 1, -32>>, <<66600, 66639, 1, -40>>,
     <<66776, 66811, 1, -40>>, <<66967, 66977, 1, -39>>,
     <<66979, 66993, 1, -39>>, <<66995, 67001, 1, -39>>,
     <<67003, 67004, 1, -39>>, <<68800, 68850, 1, -64>>,
     <<71872, 71903, 1, -32>>, <<93792, 93823, 1, -32>>,
     <<125218, 125251, 1, -34>>
  >>

\* the characters whose upper case is more than one character
UpperSpecial ==
  <<
     <<223, <<83, 83>>>>, <<329, <<700, 78>>>>, <<496, <<74, 780>>>>,
     <<912, <<921, 776, 769>>>>, <<944, <<933, 776, 769>>>>,
     <<1415, <<1333, 1362>>>>, <<7830, <<72, 817>>>>,
     <<7831, <<84, 776>>>>, <<7832, <<87, 778>>>>, <<7833, <<89, 778>>>>,
     <<7834, <<65, 702>>>>, <<8016, <<933, 787>>>>,
     <<8018, <<933, 787, 768>>>>, <<8020, <<933, 787, 769>>>>,
     <<8022, <<933, 787, 834>>>>, <<8064, <<7944, 921>>>>,
     <<8065, <<7945, 921>>>>, <<8066, <<7946, 921>>>>,
     <<8067, <<7947, 921>>>>, <<8068, <<7948, 921>>>>,
     <<8069, <<7949, 921>>>>, <<8070, <<7950, 921>>>>,
     <<8071, <<7951, 921>>>>, <<8072, <<7944, 921>>>>,
     <<8073, <<7945, 921>>>>, <<8074, <<7946, 921>>>>,
     <<8075, <<7947, 921>>>>, <<8076, <<7948, 921>>>>,
     <<8077, <<7949, 921>>>>, <<8078, <<7950, 921>>>>,
     <<8079, <<7951, 921>>>>, <<8080, <<7976, 921>>>>,
     <<8081, <<7977, 921>>>>, <<8082, <<7978, 921>>>>,
     <<8083, <<7979, 921>>>>, <<8084, <<7980, 921>>>>,
     <<8085, <<7981, 921>>>>, <<8086, <<7982, 921>>>>,
     <<8087, <<7983, 921>>>>, <<8088, <<7976, 921>>>>,
     <<8089, <<7977, 921>>>>, <<8090, <<7978, 921>>>>,
     <<8091, <<7979, 921>>>>, <<8092, <<7980, 921>>>>,
     <<8093, <<7981, 921>>>>, <<8094, <<7982, 921>>>>,
     <<8095, <<7983, 921>>>>, <<8096, <<8040, 921>>>>,
     <<8097, <<8041, 921>>>>, <<8098, <<8042, 921>>>>,
     <<8099, <<8043, 921>>>>, <<8100, <<8044, 921>>>>,
     <<8101, <<8045, 921>>>>, <<8102, <<8046, 921>>>>,
     <<8103, <<8047, 921>>>>, <<8104, <<8040, 921>>>>,
     <<8105, <<8041, 921>>>>, <<8106, <<8042, 921>>>>,
     <<8107, <<8043, 921>>>>, <<8108, <<8044, 921>>>>,
     <<8109, <<8045, 921>>>>, <<8110, <<8046, 921>>>>,
     <<8111, <<8047, 921>>>>, <<8114, <<8122, 921>>>>,
     <<8115, <<913, 921>>>>, <<8116, <<902, 921>>>>,
     <<8118, <<913, 834>>>>, <<8119, <<913, 834, 921>>>>,
     <<8124, <<913, 921>>>>, <<8130, <<8138, 921>>>>,
     <<8131, <<919, 921>>>>, <<8132, <<905, 921>>>>,
     <<8134, <<919, 834>>>>, <<8135, <<919, 834, 921>>>>,
     <<8140, <<919, 921>>>>, <<8146, <<921, 776, 768>>>>,
     <<8147, <<921, 776, 769>>>>, <<8150, <<921, 834>>>>,
     <<8151, <<921, 776, 834>>>>, <<8162, <<933, 776, 768>>>>,
     <<8163, <<933, 776, 769>>>>, <<8164, <<929, 787>>>>,
     <<8166, <<933, 834>>>>, <<8167, <<933, 776, 834>>>>,
     <<8178, <<8186, 921>>>>, <<8179, <<937, 921>>>>,
     <<8180, <<911, 921>>>>, <<8182, <<937, 834>>>>,
     <<8183, <<937, 834, 921>>>>, <<8188, <<937, 921>>>>,
     <<64256, <<70, 70>>>>, <<64257, <<70, 73>>>>, <<64258, <<70, 76>>>>,
     <<64259, <<70, 70, 73>>>>, <<64260, <<70, 70, 76>>>>,
     <<64261, <<83, 84>>>>, <<64262, <<83, 84>>>>,
     <<64275, <<1348, 1350>>>>, <<64276, <<1348, 1333>>>>,
     <<64277, <<1348, 1339>>>>, <<64278, <<1358, 1350>>>>,
     <<64279, <<1348, 1341>>>>
  >>

\* the characters with the property Case_Ignorable
CaseIgnorable ==
  <<
     <<39, 39>>, <<46, 46>>, <<58, 58>>, <<94, 94>>, <<96, 96>>,
     <<168, 168>>, <<173, 173>>, <<175, 175>>, <<180, 180>>, <<183, 184>>,
     <<688, 879>>, <<884, 885>>, <<890, 890>>, <<900, 901>>, <<903, 903>>,
     <<1155, 1161>>, <<1369, 1369>>, <<1375, 1375>>, <<1425, 1469>>,
     <<1471, 1471>>, <<1473, 1474>>, <<1476, 1477>>, <<1479, 1479>>,
     <<1524, 1524>>, <<1536, 1541>>, <<1552, 1562>>, <<1564, 1564>>,
     <<1600, 1600>>, <<1611, 1631>>, <<1648, 1648>>, <<1750, 1757>>,
     <<1759, 1768>>, <<1770, 1773>>, <<1807, 1807>>, <<1809, 1809>>,
     <<1840, 1866>>, <<1958, 1968>>, <<2027, 2037>>, <<2042, 2042>>,
     <<2045, 2045>>, <<2070, 2093>>, <<2137, 2139>>, <<2184, 2184>>,
     <<2192, 2193>>, <<2200, 2207>>, <<2249, 2306>>, <<2362, 2362>>,
     <<2364, 2364>>, <<2369, 2376>>, <<2381, 2381>>, <<2385, 2391>>,
     <<2402, 2403>>, <<2417, 2417>>, <<2433, 2433>>, <<2492, 2492>>,
     <<2497, 2500>>, <<2509, 2509>>, <<2530, 2531>>, <<2558, 2558>>,
     <<2561, 2562>>, <<2620, 2620>>, <<2625, 2626>>, <<2631, 2632>>,
     <<2635, 2637>>, <<2641, 2641>>, <<2672, 2673>>, <<2677, 2677>>,
     <<2689, 2690>>, <<2748, 2748>>, <<2753, 2757>>, <<2759, 2760>>,
     <<2765, 2765>>, <<2786, 2787>>, <<2810, 2815>>, <<2817, 2817>>,
     <<2876, 2876>>, <<2879, 2879>>, <<2881, 2884>>, <<2893, 2893>>,
     <<2901, 2902>>, <<2914, 2915>>, <<2946, 2946>>, <<3008, 3008>>,
     <<3021, 3021>>, <<3072, 3072>>, <<3076, 3076>>, <<3132, 3132>>,
     <<3134, 3136>>, <<3142, 3144>>, <<3146, 3149>>, <<3157, 3158>>,
     <<3170, 3171>>, <<3201, 3201>>, <<3260, 3260>>, <<3263, 3263>>,
     <<3270, 3270>>, <<3276, 3277>>, <<3298, 3299>>, <<3328, 3329>>,
     <<3387, 3388>>, <<3393, 3396>>, <<3405, 3405>>, <<3426, 3427>>,
     <<3457, 3457>>, <<3530, 3530>>, <<3538, 3540>>, <<3542, 3542>>,
     <<3633, 3633>>, <<3636, 3642>>, <<3654, 3662>>, <<3761, 3761>>,
     <<3764, 3772>>, <<3782, 3782>>, <<3784, 3789>>, <<3864, 3865>>,
     <<3893, 3893>>, <<3895, 3895>>, <<3897, 3897>>, <<3953, 3966>>,
     <<3968, 3972>>, <<3974, 3975>>, <<3981, 3991>>, <<3993, 4028>>,
     <<4038, 4038>>, <<4141, 4144>>, <<4146, 4151>>, <<4153, 4154>>,
     <<4157, 4158>>, <<4184, 4185>>, <<4190, 4192>>, <<4209, 4212>>,
     <<4226, 4226>>, <<4229, 4230>>, <<4237, 4237>>, <<4253, 4253>>,
     <<4348, 4348>>, <<4957, 4959>>, <<5906, 5908>>, <<5938, 5939>>,
     <<5970, 5971>>, <<6002, 6003>>, <<6068, 6069>>, <<6071, 6077>>,
     <<6086, 6086>>, <<6089, 6099>>, <<6103, 6103>>, <<6109, 6109>>,
     <<6155, 6159>>, <<6211, 6211>>, <<6277, 6278>>, <<6313, 6313>>,
     <<6432, 6434>>, <<6439, 6440>>, <<6450, 6450>>, <<6457, 6459>>,
     <<6679, 6680>>, <<6683, 6683>>, <<6742, 6742>>, <<6744, 6750>>,
     <<6752, 6752>>, <<6754, 6754>>, <<6757, 6764>>, <<6771, 6780>>,
     <<6783, 6783>>, <<6823, 6823>>, <<6832, 6862>>, <<6912, 6915>>,
     <<6964, 6964>>, <<6966, 6970>>, <<6972, 6972>>, <<6978, 6978>>,
     <<7019, 7027>>, <<7040, 7041>>, <<7074, 7077>>, <<7080, 7081>>,
     <<7083, 7085>>, <<7142, 7142>>, <<7144, 7145>>, <<7149, 7149>>,
     <<7151, 7153>>, <<7212, 7219>>, <<7222, 7223>>, <<7288, 7293>>,
     <<7376, 7378>>, <<7380, 7392>>, <<7394, 7400>>, <<7405, 7405>>,
     <<7412, 7412>>, <<7416, 7417>>, <<7468, 7530>>, <<7544, 7544>>,
     <<7579, 7679>>, <<8125, 8125>>, <<8127, 8129>>, <<8141, 8143>>,
     <<8157, 8159>>, <<8173, 8175>>, <<8189, 8190>>, <<8203, 8207>>,
     <<8216, 8217>>, <<8228, 8228>>, <<8231, 8231>>, <<8234, 8238>>,
     <<8288, 8292>>, <<8294, 8303>>, <<8305, 8305>>, <<8319, 8319>>,
     <<8336, 8348>>, <<8400, 8432>>, <<11388, 11389>>, <<11503, 11505>>,
     <<11631, 11631>>, <<11647, 11647>>, <<11744, 11775>>,
     <<11823, 11823>>, <<12293, 12293>>, <<12330, 12333>>,
     <<12337, 12341>>, <<12347, 12347>>, <<12441, 12446>>,
     <<12540, 12542>>, <<40981, 40981>>, <<42232, 42237>>,
     <<42508, 42508>>, <<42607, 42610>>, <<42612, 42621>>,
     <<42623, 42623>>, <<42652, 42655>>, <<42736, 42737>>,
     <<42752, 42785>>, <<42864, 42864>>, <<42888, 42890>>,
     <<42994, 42996>>, <<43000, 43001>>, <<43010, 43010>>,
     <<43014, 43014>>, <<43019, 43019>>, <<43045, 43046>>,
     <<43052, 43052>>, <<43204, 43205>>, <<43232, 43249>>,
     <<43263, 43263>>, <<43302, 43309>>, <<43335, 43345>>,
     <<43392, 43394>>, <<43443, 43443>>, <<43446, 43449>>,
     <<43452, 43453>>, <<43471, 43471>>, <<43493, 43494>>,
     <<43561, 43566>>, <<43569, 43570>>, <<43573, 43574>>,
     <<43587, 43587>>, <<43596, 43596>>, <<43632, 43632>>,
     <<43644, 43644>>, <<43696, 43696>>, <<43698, 43700>>,
     <<43703, 43704>>, <<43710, 43711>>, <<43713, 43713>>,
     <<43741, 43741>>, <<43756, 43757>>, <<43763, 43764>>,
     <<43766, 43766>>, <<43867, 43871>>, <<43881, 43883>>,
     <<44005, 44005>>, <<44008, 44008>>, <<44013, 44013>>,
     <<64286, 64286>>, <<64434, 64450>>, <<65024, 65039>>,
     <<65043, 65043>>, <<65056, 65071>>, <<65106, 65106>>,
     <<65109, 65109>>, <<65279, 65279>>, <<65287, 65287>>,
     <<65294, 65294>>, <<65306, 65306>>, <<65342, 65342>>,
     <<65344, 65344>>, <<65392, 65392>>, <<65438, 65439>>,
     <<65507, 65507>>, <<65529, 65531>>, <<66045, 66045>>,
     <<66272, 66272>>, <<66422, 66426>>, <<67456, 67461>>,
     <<67463, 67504>>, <<67506, 67514>>, <<68097, 68099>>,
     <<68101, 68102>>, <<68108, 68111>>, <<68152, 68154>>,
     <<68159, 68159>>, <<68325, 68326>>, <<68900, 68903>>,
     <<69291, 69292>>, <<69446, 69456>>, <<69506, 69509>>,
     <<69633, 69633>>, <<69688, 69702>>, <<69744, 69744>>,
     <<69747, 69748>>, <<69759, 69761>>, <<69811, 69814>>,
     <<69817, 69818>>, <<69821, 69821>>, <<69826, 69826>>,
     <<69837, 69837>>, <<69888, 69890>>, <<69927, 69931>>,
     <<69933, 69940>>, <<70003, 70003>>, <<70016, 70017>>,
     <<70070, 70078>>, <<70089, 70092>>, <<70095, 70095>>,
     <<70191, 70193>>, <<70196, 70196>>, <<70198, 70199>>,
     <<70206, 70206>>, <<70367, 70367>>, <<70371, 70378>>,
     <<70400, 70401>>, <<70459, 70460>>, <<70464, 70464>>,
     <<70502, 70508>>, <<70512, 70516>>, <<70712, 70719>>,
     <<70722, 70724>>, <<70726, 70726>>, <<70750, 70750>>,
     <<70835, 70840>>, <<70842, 70842>>, <<70847, 70848>>,
     <<70850, 70851>>, <<71090, 71093>>, <<71100, 71101>>,
     <<71103, 71104>>, <<71132, 71133>>, <<71219, 71226>>,
     <<71229, 71229>>, <<71231, 71232>>, <<71339, 71339>>,
     <<71341, 71341>>, <<71344, 71349>>, <<71351, 71351>>,
     <<71453, 71455>>, <<71458, 71461>>, <<71463, 71467>>,
     <<71727, 71735>>, <<71737, 71738>>, <<71995, 71996>>,
     <<71998, 71998>>, <<72003, 72003>>, <<72148, 72151>>,
     <<72154, 72155>>, <<72160, 72160>>, <<72193, 72202>>,
     <<72243, 72248>>, <<72251, 72254>>, <<72263, 72263>>,
     <<72273, 72278>>, <<72281, 72283>>, <<72330, 72342>>,
     <<72344, 72345>>, <<72752, 72758>>, <<72760, 72765>>,
     <<72767, 72767>>, <<72850, 72871>>, <<72874, 72880>>,
     <<72882, 72883>>, <<72885, 72886>>, <<73009, 73014>>,
     <<73018, 73018>>, <<73020, 73021>>, <<73023, 73029>>,
     <<73031, 73031>>, <<73104, 73105>>, <<73109, 73109>>,
     <<73111, 73111>>, <<73459, 73460>>, <<78896, 78904>>,
     <<92912, 92916>>, <<92976, 92982>>, <<92992, 92995>>,
     <<94031, 94031>>, <<94095, 94111>>, <<94176, 94177>>,
     <<94179, 94180>>, <<110576, 110579>>, <<110581, 110587>>,
     <<110589, 110590>>, <<113821, 113822>>, <<113824, 113827>>,
     <<118528, 118573>>, <<118576, 118598>>, <<119143, 119145>>,
     <<119155, 119170>>, <<119173, 119179>>, <<119210, 119213>>,
     <<119362, 119364>>, <<121344, 121398>>, <<121403, 121452>>,
     <<121461, 121461>>, <<121476, 121476>>, <<121499, 121503>>,
     <<121505, 121519>>, <<122880, 122886>>, <<122888, 122904>>,
     <<122907, 122913>>, <<122915, 122916>>, <<122918, 122922>>,
     <<123184, 123197>>, <<123566, 123566>>, <<123628, 123631>>,
     <<125136, 125142>>, <<125252, 125259>>, <<127995, 127999>>,
     <<917505, 917505>>, <<917536, 917631>>, <<917760, 917999>>
  >>

\* the characters with the property Cased that are not Case_Ignorable: the
\* test of Cased is applied to no other character
CasedRuns ==
  <<
     <<65, 90>>, <<97, 122>>, <<170, 170>>, <<181, 181>>, <<186, 186>>,
     <<192, 214>>, <<216, 246>>, <<248, 442>>, <<444, 447>>, <<452, 659>>,
     <<661, 687>>, <<880, 883>>, <<886, 887>>, <<891, 893>>, <<895, 895>>,
     <<902, 902>>, <<904, 906>>, <<908, 908>>, <<910, 929>>, <<931, 1013>>,
     <<1015, 1153>>, <<1162, 1327>>, <<1329, 1366>>, <<1376, 1416>>,
     <<4256, 4293>>, <<4295, 4295>>, <<4301, 4301>>, <<4304, 4346>>,
     <<4349, 4351>>, <<5024, 5109>>, <<5112, 5117>>, <<7296, 7304>>,
     <<7312, 7354>>, <<7357, 7359>>, <<7424, 7467>>, <<7531, 7543>>,
     <<7545, 7578>>, <<7680, 7957>>, <<7960, 7965>>, <<7968, 8005>>,
     <<8008, 8013>>, <<8016, 8023>>, <<8025, 8025>>, <<8027, 8027>>,
     <<8029, 8029>>, <<8031, 8061>>, <<8064, 8116>>, <<8118, 8124>>,
     <<8126, 8126>>, <<8130, 8132>>, <<8134, 8140>>, <<8144, 8147>>,
     <<8150, 8155>>, <<8160, 8172>>, <<8178, 8180>>, <<8182, 8188>>,
     <<8450, 8450>>, <<8455, 8455>>, <<8458, 8467>>, <<8469, 8469>>,
     <<8473, 8477>>, <<8484, 8484>>, <<8486, 8486>>, <<8488, 8488>>,
     <<8490, 8493>>, <<8495, 8500>>, <<8505, 8505>>, <<8508, 8511>>,
     <<8517, 8521>>, <<8526, 8526>>, <<8544, 8575>>, <<8579, 8580>>,
     <<9398, 9449>>, <<11264, 11387>>, <<11390, 11492>>, <<11499, 11502>>,
     <<11506, 11507>>, <<11520, 11557>>, <<11559, 11559>>,
     <<11565, 11565>>, <<42560, 42605>>, <<42624, 42651>>,
     <<42786, 42863>>, <<42865, 42887>>, <<42891, 42894>>,
     <<42896, 42954>>, <<42960, 42961>>, <<42963, 42963>>,
     <<42965, 42969>>, <<42997, 42998>>, <<43002, 43002>>,
     <<43824, 43866>>, <<43872, 43880>>, <<43888, 43967>>,
     <<64256, 64262>>, <<64275, 64279>>, <<65313, 65338>>,
     <<65345, 65370>>, <<66560, 66639>>, <<66736, 66771>>,
     <<66776, 66811>>, <<66928, 66938>>, <<66940, 66954>>,
     <<66956, 66962>>, <<66964, 66965>>, <<66967, 66977>>,
     <<66979, 66993>>, <<66995, 67001>>, <<67003, 67004>>,
     <<68736, 68786>>, <<68800, 68850>>, <<71840, 71903>>,
     <<93760, 93823>>, <<119808, 119892>>, <<119894, 119964>>,
     <<119966, 119967>>, <<119970, 119970>>, <<119973, 119974>>,
     <<119977, 119980>>, <<119982, 119993>>, <<119995, 119995>>,
     <<119997, 120003>>, <<120005, 120069>>, <<120071, 120074>>,
     <<120077, 120084>>, <<120086, 120092>>, <<120094, 120121>>,
     <<120123, 120126>>, <<120128, 120132>>, <<120134, 120134>>,
     <<120138, 120144>>, <<120146, 120485>>, <<120488, 120512>>,
     <<120514, 120538>>, <<120540, 120570>>, <<120572, 120596>>,
     <<120598, 120628>>, <<120630, 120654>>, <<120656, 120686>>,
     <<120688, 120712>>, <<120714, 120744>>, <<120746, 120770>>,
     <<120772, 120779>>, <<122624, 122633>>, <<122635, 122654>>,
     <<125184, 125251>>, <<127280, 127305>>, <<127312, 127337>>,
     <<127344, 127369>>
  >>

\* the capital sigma at position n of s is in the context of a final sigma:
\* a cased character before it and none after it, the case-ignorable
\* characters in between skipped
FinalSigma(s, n) ==
    /\ \E j \in 1..(n - 1) :
          /\ InIntervals(s[j], CasedRuns)
          /\ \A m \in (j + 1)..(n - 1) : InIntervals(s[m], CaseIgnorable)
    /\ ~\E j \in (n + 1)..Len(s) :
          /\ InIntervals(s[j], CasedRuns)
          /\ \A m \in (n + 1)..(j - 1) : InIntervals(s[m], CaseIgnorable)

\* the lower case of the character at position n of s: one character, or
\* two for the capital I with dot above
LowerAt(s, n) ==
    IF s[n] = 931
    THEN IF FinalSigma(s, n) THEN <<962>> ELSE <<963>>
    ELSE IF s[n] = 304
         THEN <<105, 775>>
         ELSE IF s[n] < 128
              THEN <<IF s[n] >= 65 /\ s[n] <= 90 THEN s[n] + 32 ELSE s[n]>>
              ELSE <<MapByRuns(s[n], LowerRuns)>>

RECURSIVE LowerFrom(_, _)
LowerFrom(s, n) == IF n > Len(s) THEN <<>> ELSE LowerAt(s, n) \o LowerFrom(s, n + 1)

IsAscii(s) == \A n \in 1..Len(s) : s[n] < 128

\* s.lower()
Lower(s) ==
    IF IsAscii(s)
    THEN [n \in 1..Len(s) |-> IF s[n] >= 65 /\ s[n] <= 90 THEN s[n] + 32 ELSE s[n]]
    ELSE LowerFrom(s, 1)

\* the upper case of the character c, one character or more
UpperOf(c) ==
    IF c < 128
    THEN <<IF c >= 97 /\ c <= 122 THEN c - 32 ELSE c>>
    ELSE LET special == {n \in 1..Len(UpperSpecial) : UpperSpecial[n][1] = c}
         IN  IF special = {}
             THEN <<MapByRuns(c, UpperRuns)>>
             ELSE UpperSpecial[CHOOSE n \in special : TRUE][2]

RECURSIVE UpperFrom(_, _)
UpperFrom(s, n) == IF n > Len(s) THEN <<>> ELSE UpperOf(s[n]) \o UpperFrom(s, n + 1)

\* s.upper()
Upper(s) ==
    IF IsAscii(s)
    THEN [n \in 1..Len(s) |-> IF s[n] >= 97 /\ s[n] <= 122 THEN s[n] - 32 ELSE s[n]]
    ELSE UpperFrom(s, 1)

----------------------------------------------------------------------------
(* fetch_nws.py: group_alerts_by_type; analyze.py: build_regional_summaries. *)

\* the mutant of GroupAlert: the list of the event type is begun anew
GroupAlert_anew(grouped, alert) ==
    [event_type \in DOMAIN grouped \cup {alert.event} |->
        IF event_type = alert.event THEN <<alert>> ELSE grouped[event_type]]

\* lines 359-362: one iteration
GroupAlert(grouped, alert) ==
    [event_type \in DOMAIN grouped \cup {alert.event} |->
        IF event_type = alert.event
        THEN Append(IF event_type \in DOMAIN grouped THEN grouped[event_type] ELSE <<>>, alert)
        ELSE grouped[event_type]]

\* lines 358-362: the loop from alert n on
RECURSIVE GroupFrom(_, _, _)
GroupFrom(grouped, alerts_, n) ==
    IF n > Len(alerts_)
    THEN grouped
    ELSE GroupFrom(GroupAlert(grouped, alerts_[n]), alerts_, n + 1)

group_alerts_by_type(alerts_) == GroupFrom(EmptyDict, alerts_, 1)

\* dict.update
DictUpdate(d, other) ==
    [key \in DOMAIN d \cup DOMAIN other |-> IF key \in DOMAIN other THEN other[key] ELSE d[key]]

\* lines 142-145 and 147-150: the loop over the outlooks from n on
RECURSIVE Day1CountyRisks(_, _, _)
Day1CountyRisks(county_risks, outlooks, n) ==
    IF n > Len(outlooks)
    THEN county_risks
    ELSE Day1CountyRisks(IF outlooks[n].day = 1
                         THEN DictUpdate(county_risks, outlooks[n].county_risks)
                         ELSE county_risks,
                         outlooks, n + 1)

\* line 179: any(county.lower() in affected.lower() for county in
\* region_counties), from county n on
RECURSIVE AnyCounty(_, _, _)
AnyCounty(affected, region_counties, n) ==
    IF n > Len(region_counties)
    THEN FALSE
    ELSE IF Contains(Lower(affected), Lower(region_counties[n]))
    THEN TRUE
    ELSE AnyCounty(affected, region_counties, n + 1)

\* the mutant of AffectedLoop: the loop goes on after a match
RECURSIVE AffectedLoop_no_break(_, _, _, _)
AffectedLoop_no_break(region_alerts, alert, region_counties, n) ==
    IF n > Len(alert.affected_counties)
    THEN region_alerts
    ELSE AffectedLoop_no_break(IF AnyCounty(alert.affected_counties[n], region_counties, 1)
                               THEN Append(region_alerts, alert)
                               ELSE region_alerts,
                               alert, region_counties, n + 1)

\* lines 178-181: the loop over the tokens of the alert from token n on,
\* which appends the alert and breaks at the first match
RECURSIVE AffectedLoop(_, _, _, _)
AffectedLoop(region_alerts, alert, region_counties, n) ==
    IF n > Len(alert.affected_counties)
    THEN region_alerts
    ELSE IF AnyCounty(alert.affected_counties[n], region_counties, 1)
    THEN Append(region_alerts, alert)
    ELSE AffectedLoop(region_alerts, alert, region_counties, n + 1)

\* lines 177-181: the loop over the alerts from alert n on
RECURSIVE RegionAlertsFrom(_, _, _, _)
RegionAlertsFrom(region_alerts, alerts_, region_counties, n) ==
    IF n > Len(alerts_)
    THEN region_alerts
    ELSE RegionAlertsFrom(AffectedLoop(region_alerts, alerts_[n], region_counties, 1),
                          alerts_, region_counties, n + 1)

\* lines 176-181
RegionAlerts(alerts_, region_counties) == RegionAlertsFrom(<<>>, alerts_, region_counties, 1)

\* lines 154-206: the summary of one anchor forecast
RegionalSummary(forecast, alerts_, spc_county_risks, ero_county_risks, counties_config) ==
    LET region_counties == RegionCounties(counties_config, forecast.region)
    IN  [region |-> forecast.region,
         anchor_city |-> forecast.location_name,
         daily_forecasts |-> extract_daily_forecasts(forecast.periods),
         spc_risk_day1 |-> RegionMaxSpc(region_counties, spc_county_risks),
         spc_risk_day2 |-> SPC("NONE"),
         ero_risk_day1 |-> RegionMaxEro(region_counties, ero_county_risks),
         high_temp |-> forecast.temperature_high,
         low_temp |-> forecast.temperature_low,
         alerts |-> RegionAlerts(alerts_, region_counties)]

build_regional_summaries(forecasts, alerts_, spc_outlooks, ero_outlooks, counties_config) ==
    LET spc_county_risks == Day1CountyRisks(EmptyDict, spc_outlooks, 1)
        ero_county_risks == Day1CountyRisks(EmptyDict, ero_outlooks, 1)
    IN  [n \in 1..Len(forecasts) |->
            RegionalSummary(forecasts[n], alerts_, spc_county_risks, ero_county_risks,
                            counties_config)]

----------------------------------------------------------------------------
(* What a fetch does when it is called: it raises, or it returns its data, *)
(* and the objects it returns.                                             *)

Raises == [raises |-> TRUE, data |-> <<>>]

Returns(data) == [raises |-> FALSE, data |-> data]

\* SPCOutlook and EROOutlook: day, polygons, and county_risks, empty at first
MkOutlook(day, polygons) == [day |-> day, polygons |-> polygons, county_risks |-> EmptyDict]

\* GridForecast
MkForecast(location_name, region, periods) ==
    [location_name |-> location_name, region |-> region, periods |-> periods,
     temperature_high |-> None, temperature_low |-> None]

----------------------------------------------------------------------------
(* The fetch functions.  What a service answers to a request is a record   *)
(* of status and payload.  The request failed or timed out (an exception   *)
(* of requests, RequestException), or the answer is a JSON document: a     *)
(* number, true, false or null; a string or an array, which is empty or   *)
(* not; or an object, which is empty, or has the key "error", or neither,  *)
(* and then the payload is what the caller reads from it.                  *)

RequestError == [status |-> "request_error", payload |-> <<>>]

\* a number, true, false or null
Scalar == [status |-> "scalar", payload |-> <<>>]

\* the string "" or the array []
EmptySequence == [status |-> "empty_sequence", payload |-> <<>>]

\* any other string or array
OtherSequence == [status |-> "sequence", payload |-> <<>>]

\* the object {}
EmptyObject == [status |-> "empty_object", payload |-> <<>>]

\* an object with the key "error" and without the key the caller reads
ErrorObject == [status |-> "error_object", payload |-> <<>>]

\* any other object
Response(payload) == [status |-> "ok", payload |-> payload]

IsObject(response) == response.status \in {"empty_object", "error_object", "ok"}

\* data.get(...) raises AttributeError: the answer is a document, and not
\* an object
GetRaises(response) == response.status \in {"scalar", "empty_sequence", "sequence"}

\* data.get(key, default) on an object: the payload, and the default, which
\* is empty, for an object without the key
Content(response) == IF response.status = "ok" THEN response.payload ELSE <<>>

\* s.split(sep) for a separator of one character
RECURSIVE Split(_, _)
Split(s, sep) ==
    IF \A n \in 1..Len(s) : s[n] # sep
    THEN <<s>>
    ELSE LET n == CHOOSE m \in 1..Len(s) : s[m] = sep /\ \A k \in 1..(m - 1) : s[k] # sep
         IN  <<SubSeq(s, 1, n - 1)>> \o Split(SubSeq(s, n + 1, Len(s)), sep)

Semicolon == 59

\* fetch_nws.py lines 111-112: the tokens of areaDesc
AffectedCounties(area_desc) ==
    LET parts == Split(area_desc, Semicolon)
    IN  SelectSeq([n \in 1..Len(parts) |-> strip(parts[n])], LAMBDA c : c # <<>>)

\* fetch_nws.py lines 94-98 and 100-105: a value that is truthy and not a
\* string has no replace, and the AttributeError is not among the caught
\* ValueError and TypeError; null, the empty string and a missing key are
\* skipped, and a string that is not a time raises the caught ValueError
TimeRaises(value) == value.kind = "number"

\* fetch_nws.py lines 111-112: a value that is not a string has no split;
\* the default "" stands for a missing key only
AreaRaises(value) == value.kind \in {"null", "number"}

\* fetch_nws.py lines 76-112: the parsing of a feature raises
\* AttributeError; a feature whose properties are null has no get (line 79)
ParseRaises(feature) ==
    \/ feature.properties = "null"
    \/ TimeRaises(feature.onset)
    \/ TimeRaises(feature.expires)
    \/ AreaRaises(feature.areaDesc)

\* fetch_nws.py lines 76-129: the Alert of one feature whose parsing does
\* not raise; the defaults "Unknown" and "" stand for a missing key, and a
\* null event is kept
ParseAlert(props) ==
    AlertOf(IF props.event.kind = "missing" THEN JsonString("Unknown") ELSE props.event,
            AffectedCounties(IF props.areaDesc.kind = "missing" THEN <<>> ELSE props.areaDesc.s[1]))

\* fetch_nws.py: fetch_active_alerts; a RequestException is caught and
\* gives the empty list, data.get (line 71) on a document that is not an
\* object raises AttributeError, and so does the parsing of a feature: the
\* handler of line 133 does not catch it, and the alerts parsed before are
\* lost
fetch_active_alerts(response) ==
    CASE response.status = "request_error" -> Returns(<<>>)
      [] GetRaises(response) -> Raises
      [] \E n \in 1..Len(Content(response)) : ParseRaises(Content(response)[n]) -> Raises
      [] OTHER -> Returns([n \in 1..Len(Content(response)) |-> ParseAlert(Content(response)[n])])

\* fetch_nws.py lines 226-248: the temperatures of the first two periods
WithTemperatures(forecast, periods) ==
    LET first == IF periods[1].isDaytime
                 THEN [forecast EXCEPT !.temperature_high = periods[1].temperature]
                 ELSE [forecast EXCEPT !.temperature_low = periods[1].temperature]
    IN  IF Len(periods) = 1
        THEN first
        ELSE IF periods[2].isDaytime
        THEN [first EXCEPT !.temperature_high = periods[2].temperature]
        ELSE [first EXCEPT !.temperature_low = periods[2].temperature]

\* what fetch_grid_forecast reads of the properties of the answer to the
\* points request: gridId, missing or a string, and whether the URLs of
\* the forecast and of the grid data are there
PointProperties(gridId, forecast, forecastGridData) ==
    [gridId |-> gridId, forecast |-> forecast, forecastGridData |-> forecastGridData]

\* line 156: data.get("properties", {}) of an object without properties
NoProperties == PointProperties(None, FALSE, FALSE)

\* fetch_nws.py lines 137-169: get_point_metadata when it does not raise;
\* None when the request failed
get_point_metadata(response) ==
    IF response.status = "request_error"
    THEN None
    ELSE Some(IF response.status = "ok" THEN response.payload ELSE NoProperties)

\* line 199: not metadata or not metadata.get("gridId")
NoGrid(metadata) ==
    metadata = None \/ metadata[1].gridId = None \/ metadata[1].gridId = Some("")

\* fetch_grid_forecast raises AttributeError: data.get on an answer that
\* is not an object, to the points request (line 156), to the forecast
\* request (line 223) or to the grid data request (line 267); the two
\* last are made only with a grid and with their URL
fetch_grid_forecast_raises(anchor) ==
    \/ GetRaises(anchor.metadata)
    \/ /\ ~NoGrid(get_point_metadata(anchor.metadata))
       /\ \/ /\ get_point_metadata(anchor.metadata)[1].forecast
             /\ GetRaises(anchor.forecast)
          \/ /\ get_point_metadata(anchor.metadata)[1].forecastGridData
             /\ GetRaises(anchor.grid_data)

\* lines 216-223: the periods of the forecast; a failed request leaves
\* them empty
ForecastPeriods(anchor) ==
    IF get_point_metadata(anchor.metadata)[1].forecast /\ IsObject(anchor.forecast)
    THEN Content(anchor.forecast)
    ELSE <<>>

\* the forecast from its periods (lines 224-248)
ForecastOf(forecast, periods) ==
    IF periods = <<>>
    THEN forecast
    ELSE WithTemperatures([forecast EXCEPT !.periods = periods], periods)

\* fetch_nws.py: fetch_grid_forecast for one anchor when it does not raise:
\* None without a grid; the quantities of the grid data are not fields of
\* the model
fetch_grid_forecast(anchor) ==
    IF NoGrid(get_point_metadata(anchor.metadata))
    THEN None
    ELSE Some(ForecastOf(MkForecast(anchor.city, anchor.region, <<>>), ForecastPeriods(anchor)))

\* fetch_nws.py lines 326-341: the loop over the anchors from n on; an
\* anchor for which fetch_grid_forecast returns None gives no forecast
RECURSIVE AnchorLoop(_, _)
AnchorLoop(anchors, n) ==
    IF n > Len(anchors)
    THEN <<>>
    ELSE (IF fetch_grid_forecast(anchors[n]) = None
          THEN <<>>
          ELSE <<fetch_grid_forecast(anchors[n])[1]>>)
             \o AnchorLoop(anchors, n + 1)

\* fetch_nws.py: fetch_anchor_forecasts; anchors_file is <<>> when the file
\* cannot be opened, which raises, as does fetch_grid_forecast
fetch_anchor_forecasts(anchors_file) ==
    IF anchors_file = None
       \/ \E n \in 1..Len(anchors_file[1]) : fetch_grid_forecast_raises(anchors_file[1][n])
    THEN Raises
    ELSE Returns(AnchorLoop(anchors_file[1], 1))

\* fetch_spc.py: the table risk_map of parse_spc_risk
spc_risk_map ==
       (<<84, 83, 84, 77>> :> SPC("TSTM"))   \* TSTM
    @@ (<<71, 69, 78, 69, 82, 65, 76, 32, 84, 72, 85, 78, 68, 69, 82>> :> SPC("TSTM"))   \* GENERAL THUNDER
    @@ (<<71, 69, 78, 69, 82, 65, 76, 32, 84, 72, 85, 78, 68, 69, 82, 83, 84, 79, 82, 77>> :> SPC("TSTM"))   \* GENERAL THUNDERSTORM
    @@ (<<77, 82, 71, 76>> :> SPC("MRGL"))   \* MRGL
    @@ (<<77, 65, 82, 71, 73, 78, 65, 76>> :> SPC("MRGL"))   \* MARGINAL
    @@ (<<83, 76, 71, 84>> :> SPC("SLGT"))   \* SLGT
    @@ (<<83, 76, 73, 71, 72, 84>> :> SPC("SLGT"))   \* SLIGHT
    @@ (<<69, 78, 72>> :> SPC("ENH"))   \* ENH
    @@ (<<69, 78, 72, 65, 78, 67, 69, 68>> :> SPC("ENH"))   \* ENHANCED
    @@ (<<77, 68, 84>> :> SPC("MDT"))   \* MDT
    @@ (<<77, 79, 68, 69, 82, 65, 84, 69>> :> SPC("MDT"))   \* MODERATE
    @@ (<<72, 73, 71, 72>> :> SPC("HIGH"))   \* HIGH

\* fetch_wpc.py: the table category_map of parse_ero_category
ero_category_map ==
       (<<77, 82, 71, 76>> :> ERO("MRGL"))   \* MRGL
    @@ (<<77, 65, 82, 71, 73, 78, 65, 76>> :> ERO("MRGL"))   \* MARGINAL
    @@ (<<83, 76, 71, 84>> :> ERO("SLGT"))   \* SLGT
    @@ (<<83, 76, 73, 71, 72, 84>> :> ERO("SLGT"))   \* SLIGHT
    @@ (<<77, 68, 84>> :> ERO("MDT"))   \* MDT
    @@ (<<77, 79, 68, 69, 82, 65, 84, 69>> :> ERO("MDT"))   \* MODERATE
    @@ (<<72, 73, 71, 72>> :> ERO("HIGH"))   \* HIGH

\* fetch_spc.py: parse_spc_risk
parse_spc_risk(label) ==
    IF label = <<>> THEN SPC("NONE") ELSE DictGet(spc_risk_map, strip(Upper(label)), SPC("NONE"))

\* fetch_wpc.py: parse_ero_category
parse_ero_category(label) ==
    IF label = <<>> THEN ERO("NONE") ELSE DictGet(ero_category_map, strip(Upper(label)), ERO("NONE"))

\* fetch_spc.py: convert_esri_to_geojson_ring raises IndexError on a vertex
\* of fewer than two coordinates
convert_raises(ring) == \E n \in 1..Len(ring) : Len(ring[n]) < 2

\* fetch_spc.py: convert_esri_to_geojson_ring
convert_esri_to_geojson_ring(ring) == [n \in 1..Len(ring) |-> <<ring[n][1], ring[n][2]>>]

\* fetch_spc.py lines 171-198: the polygons of the features from n on; a
\* feature is the record of its label and its rings
RECURSIVE SpcPolygonsFrom(_, _)
SpcPolygonsFrom(features, n) ==
    IF n > Len(features)
    THEN <<>>
    ELSE (IF features[n].rings # <<>>
          THEN <<MkSpcPolygon(parse_spc_risk(features[n].label),
                              [r \in 1..Len(features[n].rings) |->
                                  convert_esri_to_geojson_ring(features[n].rings[r])])>>
          ELSE <<>>)
             \o SpcPolygonsFrom(features, n + 1)

\* fetch_spc.py line 117: "error" in data raises TypeError on a number,
\* true, false or null
fetch_spc_layer_raises(response) == response.status = "scalar"

\* fetch_spc.py lines 95-125: fetch_spc_layer when it does not raise: None
\* when the request failed and when the answer is an object with the key
\* "error", and the answer otherwise
fetch_spc_layer(response) ==
    IF response.status \in {"request_error", "error_object"}
    THEN None
    ELSE Some(response)

\* fetch_spc.py line 152, fetch_wpc.py line 191: not data
NoData(data) == data = None \/ data[1].status \in {"empty_sequence", "empty_object"}

\* fetch_spc.py lines 145-210: the loop over CATEGORICAL_LAYERS from layer n
\* on; the layer of id n is the outlook of day n, and a layer without data
\* is passed over
RECURSIVE SpcLayerLoop(_, _)
SpcLayerLoop(layers, n) ==
    IF n > Len(layers)
    THEN <<>>
    ELSE (IF NoData(fetch_spc_layer(layers[n]))
          THEN <<>>
          ELSE <<MkOutlook(n, SpcPolygonsFrom(Content(layers[n]), 1))>>)
             \o SpcLayerLoop(layers, n + 1)

\* fetch_spc.py: fetch_spc_outlooks; it raises with fetch_spc_layer, on a
\* string or an array that is not empty (data['error'] of line 118 when it
\* holds "error", data.get of line 155 when it does not), and on a vertex
\* of fewer than two coordinates
fetch_spc_outlooks(layers) ==
    IF \E n \in 1..Len(layers) :
           \/ fetch_spc_layer_raises(layers[n])
           \/ layers[n].status = "sequence"
           \/ \E f \in 1..Len(Content(layers[n])) : \E r \in 1..Len(Content(layers[n])[f].rings) :
                  convert_raises(Content(layers[n])[f].rings[r])
    THEN Raises
    ELSE Returns(SpcLayerLoop(layers, 1))

\* fetch_wpc.py lines 208-233: the polygons of the features from n on; the
\* rings are passed on as they are
RECURSIVE EroPolygonsFrom(_, _)
EroPolygonsFrom(features, n) ==
    IF n > Len(features)
    THEN <<>>
    ELSE (IF features[n].rings # <<>>
          THEN <<MkEroPolygon(parse_ero_category(features[n].label), features[n].rings)>>
          ELSE <<>>)
             \o EroPolygonsFrom(features, n + 1)

\* fetch_wpc.py line 113: "error" in data raises TypeError on a number,
\* true, false or null (status "scalar").
\* fetch_wpc.py lines 84-121: fetch_ero_layer when it does not raise
fetch_ero_layer(response) ==
    IF response.status \in {"request_error", "error_object"}
    THEN None
    ELSE Some(response)

\* an item of the dicts ERO_LAYERS and ero_layers: the id of a layer and
\* its day
EroLayer(id, day) == [id |-> id, day |-> day]

\* fetch_wpc.py lines 25-29; a dict is the list of its items in the order
\* of their insertion
ERO_LAYERS == <<EroLayer(1, 1), EroLayer(2, 2), EroLayer(3, 3)>>

\* fetch_wpc.py line 147, for the lower-cased name of a layer
IsEroName(name) ==
    \/ Contains(name, <<101, 114, 111>>)
    \/ Contains(name, <<101, 120, 99, 101, 115, 115, 105, 118, 101>>)
    \/ Contains(name, <<114, 97, 105, 110, 102, 97, 108, 108>>)

\* fetch_wpc.py lines 149-153
LayerDay(name) ==
    IF Contains(name, <<100, 97, 121, 32, 50>>) \/ Contains(name, <<100, 97, 121, 50>>)
    THEN 2
    ELSE IF Contains(name, <<100, 97, 121, 32, 51>>) \/ Contains(name, <<100, 97, 121, 51>>)
    THEN 3
    ELSE 1

\* fetch_wpc.py line 155: ero_layers[layer_id] = {...}; a new key goes to
\* the end, a known key keeps its place
SetLayer(ero_layers, id, day) ==
    IF \E n \in 1..Len(ero_layers) : ero_layers[n].id = id
    THEN [n \in 1..Len(ero_layers) |->
             IF ero_layers[n].id = id THEN EroLayer(id, day) ELSE ero_layers[n]]
    ELSE Append(ero_layers, EroLayer(id, day))

\* fetch_wpc.py lines 142-155: the loop over the layers of the service from
\* n on; a layer is the record of its name and its id
RECURSIVE DiscoverFrom(_, _, _)
DiscoverFrom(ero_layers, layers, n) ==
    IF n > Len(layers)
    THEN ero_layers
    ELSE DiscoverFrom(IF IsEroName(Lower(layers[n].name))
                      THEN SetLayer(ero_layers, layers[n].id, LayerDay(Lower(layers[n].name)))
                      ELSE ero_layers,
                      layers, n + 1)

\* fetch_wpc.py: discover_ero_layers when it does not raise; a failed
\* request gives the empty dict
discover_ero_layers(response) ==
    IF response.status = "request_error" THEN <<>> ELSE DiscoverFrom(<<>>, Content(response), 1)

\* fetch_wpc.py lines 177-183: the layers discovered, or else ERO_LAYERS
OrDefaultLayers(available_layers) ==
    IF available_layers = <<>> THEN ERO_LAYERS ELSE available_layers

LayersToFetch(upstream) == OrDefaultLayers(discover_ero_layers(upstream.discovery))

\* the answer to the request of a layer; the service has no answer for a
\* layer it does not know
LayerAnswer(upstream, id) ==
    IF id \in DOMAIN upstream.layers THEN upstream.layers[id] ELSE RequestError

\* fetch_wpc.py lines 186-244: one iteration that does not raise: no
\* outlook for a layer without data, or the outlook of the day
EroLayerOutlook(day, response) ==
    IF NoData(fetch_ero_layer(response))
    THEN <<>>
    ELSE <<MkOutlook(day, EroPolygonsFrom(Content(response), 1))>>

\* fetch_wpc.py lines 185-244: the loop over layers_to_fetch from n on
RECURSIVE EroLayerLoop(_, _, _)
EroLayerLoop(upstream, layers_to_fetch, n) ==
    IF n > Len(layers_to_fetch)
    THEN <<>>
    ELSE EroLayerOutlook(layers_to_fetch[n].day, LayerAnswer(upstream, layers_to_fetch[n].id))
             \o EroLayerLoop(upstream, layers_to_fetch, n + 1)

\* an iteration of the loop raises: in fetch_ero_layer, or on data.get
\* (line 114 or line 194) of a string or an array that is not empty
EroLayersRaise(upstream, layers_to_fetch) ==
    \E n \in 1..Len(layers_to_fetch) :
        LayerAnswer(upstream, layers_to_fetch[n].id).status \in {"scalar", "sequence"}

\* fetch_wpc.py lines 246-257
EmptyEroOutlooks == <<MkOutlook(1, <<>>), MkOutlook(2, <<>>), MkOutlook(3, <<>>)>>

\* the outlooks, or the three empty ones when there is none
OrEmptyOutlooks(outlooks) == IF outlooks = <<>> THEN EmptyEroOutlooks ELSE outlooks

\* fetch_wpc.py: fetch_ero_outlooks; it raises on data.get (line 139) of
\* an answer to the discovery that is not an object, and in the loop
fetch_ero_outlooks(upstream) ==
    IF \/ GetRaises(upstream.discovery)
       \/ EroLayersRaise(upstream, LayersToFetch(upstream))
    THEN Raises
    ELSE Returns(OrEmptyOutlooks(EroLayerLoop(upstream, LayersToFetch(upstream), 1)))

\* fetch_nhc.py: fetch_tropical_systems, for storms without a position; a
\* RequestException is caught and gives the empty list, data.get (line
\* 149) on a document that is not an object raises AttributeError
fetch_tropical_systems(response) ==
    CASE response.status = "request_error" -> Returns(<<>>)
      [] GetRaises(response) -> Raises
      [] OTHER -> Returns(Content(response))

----------------------------------------------------------------------------
(* analyze.py: build_briefing, one fetch or one aggregation per step.       *)

\* what each fetch does when build_briefing calls it
bb_feed ==
    [alerts |-> fetch_active_alerts(bb_upstream.alerts),
     forecasts |-> fetch_anchor_forecasts(bb_upstream.forecasts),
     spc |-> fetch_spc_outlooks(bb_upstream.spc),
     ero |-> fetch_ero_outlooks(bb_upstream.ero),
     nhc |-> fetch_tropical_systems(bb_upstream.nhc)]

OutlookSources == {"spc", "ero"}

FetchCall ==
    [alerts |-> "fetch_active_alerts", forecasts |-> "fetch_anchor_forecasts",
     spc |-> "fetch_spc_outlooks", ero |-> "fetch_ero_outlooks",
     nhc |-> "fetch_tropical_systems"]

\* the strings build_briefing appends to sources_used
SourceName ==
    [alerts |-> "NWS Active Alerts API", forecasts |-> "NWS Gridpoint Forecast API",
     spc |-> "SPC Convective Outlooks (NOAA MapServer)",
     ero |-> "WPC Excessive Rainfall Outlook (NOAA MapServer)",
     nhc |-> "NHC Current Storms JSON"]

\* the strings build_briefing appends to data_gaps
GapString ==
    [alerts |-> "NWS alerts unavailable", forecasts |-> "NWS forecasts unavailable",
     spc |-> "SPC outlooks unavailable", ero |-> "WPC ERO unavailable",
     nhc |-> "NHC data unavailable"]

Logged(call, result) == [call |-> call, result |-> result]

\* lines 427-436
FetchAlerts ==
    /\ bb_pc = "alerts"
    /\ IF bb_feed.alerts.raises
       THEN /\ bb_alerts' = <<>>
            /\ data_gaps' = Append(data_gaps, GapString.alerts)
            /\ bb_log' = Append(bb_log, Logged(FetchCall.alerts, "raised"))
            /\ UNCHANGED sources_used
       ELSE /\ bb_alerts' = bb_feed.alerts.data
            /\ sources_used' = Append(sources_used, SourceName.alerts)
            /\ bb_log' = Append(bb_log, Logged(FetchCall.alerts, "returned"))
            /\ UNCHANGED data_gaps
    /\ bb_by_type' = group_alerts_by_type(bb_alerts')
    /\ bb_pc' = "forecasts"
    /\ UNCHANGED <<bb_upstream, bb_env, bb_forecasts, bb_outlooks, bb_k, bb_tropical, bb_briefing>>

\* lines 438-445
FetchForecasts ==
    /\ bb_pc = "forecasts"
    /\ IF bb_feed.forecasts.raises
       THEN /\ bb_forecasts' = <<>>
            /\ data_gaps' = Append(data_gaps, GapString.forecasts)
            /\ bb_log' = Append(bb_log, Logged(FetchCall.forecasts, "raised"))
            /\ UNCHANGED sources_used
       ELSE /\ bb_forecasts' = bb_feed.forecasts.data
            /\ sources_used' = Append(sources_used, SourceName.forecasts)
            /\ bb_log' = Append(bb_log, Logged(FetchCall.forecasts, "returned"))
            /\ UNCHANGED data_gaps
    /\ bb_pc' = "spc"
    /\ UNCHANGED <<bb_upstream, bb_env, bb_alerts, bb_by_type, bb_outlooks, bb_k, bb_tropical,
                   bb_briefing>>

\* the loop over the outlooks of a source
AggregationPc(src) == IF src = "spc" THEN "spc_agg" ELSE "ero_agg"

\* the statement after the try block of an outlook source
AfterOutlooks(src) == IF src = "spc" THEN "ero" ELSE "nhc"

\* lines 448-450 and 460-463 for src = "spc", 466-468 and 478-481 for "ero":
\* the fetch, and the handler when the fetch raises
FetchOutlooks(src) ==
    /\ bb_pc = src
    /\ IF bb_feed[src].raises
       THEN /\ bb_outlooks' = [bb_outlooks EXCEPT ![src] = <<>>]
            /\ data_gaps' = Append(data_gaps, GapString[src])
            /\ bb_log' = Append(bb_log, Logged(FetchCall[src], "raised"))
            /\ bb_pc' = AfterOutlooks(src)
            /\ UNCHANGED sources_used
       ELSE /\ bb_outlooks' = [bb_outlooks EXCEPT ![src] = bb_feed[src].data]
            /\ sources_used' = Append(sources_used, SourceName[src])
            /\ bb_log' = Append(bb_log, Logged(FetchCall[src], "returned"))
            /\ bb_pc' = IF bb_feed[src].data = <<>> THEN AfterOutlooks(src) ELSE AggregationPc(src)
            /\ UNCHANGED data_gaps
    /\ bb_k' = 0
    /\ UNCHANGED <<bb_upstream, bb_env, bb_alerts, bb_by_type, bb_forecasts, bb_tropical, bb_briefing>>

\* get_counties_in_outlook is called for the outlook the loop stands on
CallsAggregation(src) == bb_outlooks[src][bb_k + 1].polygons # <<>>

AggregationRaises(src) ==
    /\ CallsAggregation(src)
    /\ get_counties_in_outlook_raises(bb_outlooks[src][bb_k + 1].polygons, bb_env, CountiesConfig)

\* lines 453-459 for "spc", 471-477 for "ero": one iteration of the loop
\* over the outlooks that completes
AggregateOutlook(src) ==
    /\ bb_pc = AggregationPc(src)
    /\ bb_k < Len(bb_outlooks[src])
    /\ ~AggregationRaises(src)
    /\ IF CallsAggregation(src)
       THEN /\ bb_outlooks' =
                  [bb_outlooks EXCEPT ![src][bb_k + 1].county_risks =
                      get_counties_in_outlook(bb_outlooks[src][bb_k + 1].polygons, bb_env,
                                              CountiesConfig)]
            /\ bb_log' = Append(bb_log, Logged("get_counties_in_outlook", "returned"))
       ELSE UNCHANGED <<bb_outlooks, bb_log>>
    /\ bb_k' = bb_k + 1
    /\ bb_pc' = IF bb_k + 1 = Len(bb_outlooks[src]) THEN AfterOutlooks(src) ELSE bb_pc
    /\ UNCHANGED <<bb_upstream, bb_env, bb_alerts, bb_by_type, bb_forecasts, bb_tropical,
                   sources_used, data_gaps, bb_briefing>>

\* an iteration in which get_counties_in_outlook raises, and the handler of
\* lines 460-463 for "spc", 478-481 for "ero"
AggregationError(src) ==
    /\ bb_pc = AggregationPc(src)
    /\ bb_k < Len(bb_outlooks[src])
    /\ AggregationRaises(src)
    /\ bb_outlooks' = [bb_outlooks EXCEPT ![src] = <<>>]
    /\ data_gaps' = Append(data_gaps, GapString[src])
    /\ bb_log' = Append(bb_log, Logged("get_counties_in_outlook", "raised"))
    /\ bb_pc' = AfterOutlooks(src)
    /\ UNCHANGED <<bb_upstream, bb_env, bb_alerts, bb_by_type, bb_forecasts, bb_k, bb_tropical,
                   sources_used, bb_briefing>>

\* lines 483-492
FetchTropical ==
    /\ bb_pc = "nhc"
    /\ IF bb_feed.nhc.raises
       THEN /\ bb_tropical' = <<>>
            /\ data_gaps' = Append(data_gaps, GapString.nhc)
            /\ bb_log' = Append(bb_log, Logged(FetchCall.nhc, "raised"))
            /\ UNCHANGED sources_used
       ELSE /\ bb_tropical' = bb_feed.nhc.data
            /\ sources_used' = IF bb_feed.nhc.data # <<>>
                               THEN Append(sources_used, SourceName.nhc)
                               ELSE sources_used
            /\ bb_log' = Append(bb_log, Logged(FetchCall.nhc, "returned"))
            /\ UNCHANGED data_gaps
    /\ bb_pc' = "summaries"
    /\ UNCHANGED <<bb_upstream, bb_env, bb_alerts, bb_by_type, bb_forecasts, bb_outlooks, bb_k,
                   bb_briefing>>

\* build_statewide_overview, lines 372-374, raises TypeError: an event that
\* is not a string cannot be joined, nor sorted with a string
build_statewide_overview_raises(alerts_) ==
    \E n \in 1..Len(alerts_) : alerts_[n].event.kind # "string"

\* lines 494-506 raise: build_statewide_overview (line 504) is called
\* outside every try of build_briefing
SummariesRaise == build_statewide_overview_raises(bb_alerts)

\* lines 494-506 raise, and build_briefing with them: no briefing is
\* returned
BriefingError ==
    /\ bb_pc = "summaries"
    /\ SummariesRaise
    /\ bb_pc' = "raised"
    /\ UNCHANGED <<bb_upstream, bb_env, bb_alerts, bb_by_type, bb_forecasts, bb_outlooks, bb_k,
                   bb_tropical, sources_used, data_gaps, bb_log, bb_briefing>>

\* lines 494-535 when lines 494-506 do not raise: the regional summaries
\* and the WeatherBriefing; the narrative strings of lines 495-498 and
\* 504-506 are texts built from the same locals and leave them as they are
ReturnBriefing ==
    /\ bb_pc = "summaries"
    /\ ~SummariesRaise
    /\ bb_briefing' =
          Some([alerts |-> bb_alerts,
                alerts_by_type |-> bb_by_type,
                spc_outlooks |-> bb_outlooks.spc,
                ero_outlooks |-> bb_outlooks.ero,
                tropical_systems |-> bb_tropical,
                regional_summaries |->
                    build_regional_summaries(bb_forecasts, bb_alerts, bb_outlooks.spc,
                                             bb_outlooks.ero, CountiesConfig),
                data_gaps |-> data_gaps,
                sources_used |-> sources_used])
    /\ bb_pc' = "done"
    /\ UNCHANGED <<bb_upstream, bb_env, bb_alerts, bb_by_type, bb_forecasts, bb_outlooks, bb_k,
                   bb_tropical, sources_used, data_gaps, bb_log>>

----------------------------------------------------------------------------
(* SpecBriefing: the answers of the services and the environment are drawn, *)
(* and build_briefing runs one fetch or one aggregation per step.           *)

\* a feature of the alerts document with an object of properties
Feature(event, area_desc, onset, expires) ==
    [properties |-> "object", event |-> event, areaDesc |-> area_desc, onset |-> onset,
     expires |-> expires]

\* a feature whose properties are null
FeatureOfNull ==
    [properties |-> "null", event |-> Missing, areaDesc |-> Missing, onset |-> Missing,
     expires |-> Missing]

\* the request fails; the answer is the array []; an object without
\* features; two features with their times; a feature whose event is null
\* and one without properties; a feature whose areaDesc is null after one
\* that parses; features whose expires is a number and whose properties
\* are null
AlertUpstreams ==
    {RequestError,
     EmptySequence,
     EmptyObject,
     Response(<<Feature(JsonString("Tornado Warning"), JsonString(Hinds),
                        JsonString("2024-05-01T12:00:00-05:00"), JsonString("soon")),
                Feature(JsonString("Flood Watch"), JsonString(DeSoto \o <<Semicolon, 32>> \o Rankin),
                        JsonNull, Missing)>>),
     Response(<<Feature(JsonNull, JsonString(Hinds), Missing, JsonString("")),
                Feature(Missing, Missing, Missing, Missing)>>),
     Response(<<Feature(JsonString("Flood Watch"), JsonString(Hinds), Missing, Missing),
                Feature(JsonString("Tornado Warning"), JsonNull, Missing, Missing)>>),
     Response(<<Feature(Missing, Missing, Missing, JsonNumber)>>),
     Response(<<FeatureOfNull>>)}

Anchor(city, region, metadata, forecast, grid_data) ==
    [city |-> city, region |-> region, metadata |-> metadata, forecast |-> forecast,
     grid_data |-> grid_data]

JacksonPeriods ==
    <<MkPeriod(Monday, TRUE, "Showers", 80, Some(20)),
      MkPeriod(MondayNight, FALSE, "Cloudy", 60, Some(40))>>

\* the answer to a points request with a grid and the two URLs
Grid(gridId) == Response(PointProperties(Some(gridId), TRUE, TRUE))

TonightPeriods == <<MkPeriod(Tonight, FALSE, "Clear", 55, None)>>

\* the anchors file cannot be read; the point metadata of every anchor
\* fail; the forecast of the first anchor fails; every request succeeds;
\* the points answer of the first anchor has properties without gridId;
\* the grid data of the second anchor are an array
ForecastUpstreams ==
    {None,
     Some(<<Anchor("Jackson", JsonString("Central"), RequestError, RequestError, RequestError),
            Anchor("Southaven", JsonString("Northwest"), RequestError, RequestError, RequestError)>>),
     Some(<<Anchor("Jackson", JsonString("Central"), Grid("JAN"), RequestError, RequestError),
            Anchor("Southaven", JsonString("Northwest"), Grid("MEG"), Response(TonightPeriods), EmptyObject)>>),
     Some(<<Anchor("Jackson", JsonString("Central"), Grid("JAN"), Response(JacksonPeriods), EmptyObject),
            Anchor("Southaven", JsonString("Northwest"), Grid("MEG"), Response(TonightPeriods), EmptyObject)>>),
     Some(<<Anchor("Jackson", JsonString("Central"), Response(NoProperties), Response(JacksonPeriods), EmptyObject),
            Anchor("Southaven", JsonString("Northwest"), Grid("MEG"), Response(TonightPeriods), EmptyObject)>>),
     Some(<<Anchor("Jackson", JsonString("Central"), Grid("JAN"), Response(JacksonPeriods), EmptyObject),
            Anchor("Southaven", JsonString("Northwest"), Grid("MEG"), Response(TonightPeriods), OtherSequence)>>)}

LayerFeature(label, rings) == [label |-> label, rings |-> rings]

\* the three layers of CATEGORICAL_LAYERS: every request fails; a ring with
\* a vertex of one coordinate; three answers; the array [] and the object
\* {} before an answer; an object with the key "error" before an array
\* that is not empty
SpcUpstreams ==
    {<<RequestError, RequestError, RequestError>>,
     <<Response(<<LayerFeature(<<72, 73, 71, 72>>, <<RingShortVertex>>)>>),
       RequestError, RequestError>>,
     <<Response(<<LayerFeature(<<115, 108, 103, 116, 32>>, <<RingA>>),
                  LayerFeature(<<77, 97, 114, 103, 105, 110, 97, 108>>, <<RingAB>>)>>),
       Response(<<>>),
       Response(<<LayerFeature(<<84, 83, 84, 77>>, RingsWithHole)>>)>>,
     <<EmptySequence, EmptyObject, Response(<<LayerFeature(<<84, 83, 84, 77>>, <<RingA>>)>>)>>,
     <<ErrorObject, OtherSequence, RequestError>>}

\* a layer of the service: its name and its id
ServiceLayer(name, id) == [name |-> name, id |-> id]

EroUpstream(discovery, layers) == [discovery |-> discovery, layers |-> layers]

\* the answers to the discovery and to the layers.  The discovery fails
\* and so does every layer of ERO_LAYERS; the discovery fails and layer 1
\* answers the array []; the service has one layer of the outlook, "Day 1
\* ERO", beside a layer of another product; it has "WPC ERO" and "Day 2
\* Excessive Rainfall", the second with a vertex of one coordinate; the
\* discovery answers null; the discovery answers {} and layer 1 a string
EroUpstreams ==
    {EroUpstream(RequestError, <<>>),
     EroUpstream(RequestError, <<EmptySequence>>),
     EroUpstream(Response(<<ServiceLayer(<<68, 97, 121, 32, 49, 32, 81, 80, 70>>, 4), ServiceLayer(<<68, 97, 121, 32, 49, 32, 69, 82, 79>>, 7)>>),
                 (7 :> Response(<<LayerFeature(<<83, 76, 71, 84>>, <<RingA>>),
                                  LayerFeature(<<77, 82, 71, 76>>, <<RingAB>>)>>))
                 @@ (4 :> Response(<<LayerFeature(<<72, 73, 71, 72>>, <<RingAll>>)>>))),
     EroUpstream(Response(<<ServiceLayer(<<87, 80, 67, 32, 69, 82, 79>>, 1), ServiceLayer(<<68, 97, 121, 32, 50, 32, 69, 120, 99, 101, 115, 115, 105, 118, 101, 32, 82, 97, 105, 110, 102, 97, 108, 108>>, 2)>>),
                 <<Response(<<LayerFeature(<<77, 97, 114, 103, 105, 110, 97, 108>>, <<RingAB>>)>>),
                   Response(<<LayerFeature(<<72, 73, 71, 72>>, <<RingShortVertex>>)>>)>>),
     EroUpstream(Scalar, <<>>),
     EroUpstream(EmptyObject, <<OtherSequence>>)}

\* the request fails; the answer is null; an object without storms; a storm
NhcUpstreams ==
    {RequestError,
     Scalar,
     Response(<<>>),
     Response(<<[name |-> "Alpha", classification |-> "HU"]>>)}

InitBriefing ==
    /\ bb_upstream \in [alerts : AlertUpstreams, forecasts : ForecastUpstreams,
                        spc : SpcUpstreams, ero : EroUpstreams, nhc : NhcUpstreams]
    /\ bb_env \in GeoEnvs
    /\ bb_pc = "alerts"
    /\ bb_alerts = <<>>
    /\ bb_by_type = <<>>
    /\ bb_forecasts = <<>>
    /\ bb_outlooks = [spc |-> <<>>, ero |-> <<>>]
    /\ bb_k = 0
    /\ bb_tropical = <<>>
    /\ sources_used = <<>>
    /\ data_gaps = <<>>
    /\ bb_log = <<>>
    /\ bb_briefing = None

IdleBriefing ==
    /\ bb_upstream = <<>>
    /\ bb_env = None
    /\ bb_pc = "idle"
    /\ bb_alerts = <<>>
    /\ bb_by_type = <<>>
    /\ bb_forecasts = <<>>
    /\ bb_outlooks = <<>>
    /\ bb_k = 0
    /\ bb_tropical = <<>>
    /\ sources_used = <<>>
    /\ data_gaps = <<>>
    /\ bb_log = <<>>
    /\ bb_briefing = None

----------------------------------------------------------------------------
(* SpecSummaries: the arguments of build_regional_summaries are drawn, and *)
(* the function is applied.                                                *)

\* the longest list of alerts given to build_regional_summaries
MaxSummaryAlerts == 2

\* alerts whose tokens name counties of one region, of two regions, of one
\* region twice and in other letter case, of no region, and no county
SummaryAlerts ==
    {MkAlert("Tornado Warning", <<Hinds>>),
     MkAlert("Flood Watch", <<DeSoto, Rankin>>),
     MkAlert("Heat Advisory", <<<<82, 65, 78, 75, 73, 78, 32, 67, 79, 85, 78, 84, 89>>, <<104, 105, 110, 100, 115>>>>),
     MkAlert("Dense Fog Advisory", <<Lincoln>>),
     MkAlert("Freeze Warning", <<<<72, 105, 110, 100>>>>),
     \* "RanKin" with the Kelvin sign for its K, whose lower case is k
     MkAlert("Frost Advisory", <<<<82, 97, 110, 8490, 105, 110>>>>),
     \* "HİNDS" with the capital I with dot above, whose lower case is i
     \* followed by the combining dot
     MkAlert("Fire Weather Watch", <<<<72, 304, 78, 68, 83>>>>),
     MkAlert("Wind Advisory", <<>>)}

\* anchors of regions with counties, and of a region without one
SummaryForecasts ==
    {<<>>,
     <<MkForecast("Jackson", JsonString("Central"), JacksonPeriods),
       MkForecast("Southaven", JsonString("Northwest"), <<>>)>>,
     <<MkForecast("Greenville", JsonString("Delta"), <<>>),
       MkForecast("Gulfport", JsonString("Coast"), <<>>)>>}

\* an outlook after the aggregation of build_briefing
WithCountyRisks(outlook, county_risks) == [outlook EXCEPT !.county_risks = county_risks]

SummaryOutlooks ==
    {[spc |-> <<>>, ero |-> <<>>],
     [spc |-> <<WithCountyRisks(MkOutlook(1, <<>>), (Hinds :> SPC("SLGT")) @@ (DeSoto :> SPC("ENH"))),
                WithCountyRisks(MkOutlook(2, <<>>), (Rankin :> SPC("HIGH")))>>,
      ero |-> <<WithCountyRisks(MkOutlook(1, <<>>), (Yazoo :> ERO("MRGL")))>>],
     \* two layers of the rainfall service that the discovery gives day 1
     [spc |-> <<>>,
      ero |-> <<WithCountyRisks(MkOutlook(1, <<>>), (Hinds :> ERO("HIGH")) @@ (Yazoo :> ERO("MRGL"))),
                WithCountyRisks(MkOutlook(1, <<>>), (Hinds :> ERO("MRGL")))>>]}

InitSummaries ==
    /\ call_in \in [forecasts : SummaryForecasts,
                    alerts : SeqsUpTo(SummaryAlerts, MaxSummaryAlerts),
                    outlooks : SummaryOutlooks]
    /\ call_out = None

IdleCall ==
    /\ call_in = None
    /\ call_out = None

CallBuildRegionalSummaries ==
    /\ call_out = None
    /\ call_out' = Some(build_regional_summaries(call_in.forecasts, call_in.alerts,
                                                 call_in.outlooks.spc, call_in.outlooks.ero,
                                                 CountiesConfig))
    /\ UNCHANGED call_in

----------------------------------------------------------------------------
(* analyze.py: build_statewide_overview, and its call in build_briefing.   *)
(* The texts are sequences of code points.                                 *)

\* the decimal digits of a natural number
RECURSIVE Digits(_)
Digits(n) == IF n < 10 THEN <<48 + n>> ELSE Digits(n \div 10) \o <<48 + (n % 10)>>

\* str(n) and the formatting of an int in an f-string
Str(n) == IF n < 0 THEN <<45>> \o Digits(-n) ELSE Digits(n)

\* sep.join(parts)
RECURSIVE Join(_, _)
Join(parts, sep) ==
    IF parts = <<>> THEN <<>>
    ELSE IF Len(parts) = 1 THEN parts[1]
    ELSE parts[1] \o sep \o Join(Tail(parts), sep)

\* min and max of a non-empty list of ints
MinOfList(list) == CHOOSE v \in Range(list) : \A w \in Range(list) : v <= w

MaxOfList(list) == CHOOSE v \in Range(list) : \A w \in Range(list) : v >= w

\* the truth value of an Optional[str]
Truthy(text) == text # None /\ text[1] # <<>>

\* lines 379-380: the values that are not None, in the order of the summaries
RECURSIVE NotNone(_)
NotNone(values) ==
    IF values = <<>> THEN <<>>
    ELSE (IF values[1] = None THEN <<>> ELSE <<values[1][1]>>) \o NotNone(Tail(values))

DegreesF == <<176, 70>>

\* lines 372-376, for events that are strings (otherwise the lines raise:
\* build_statewide_overview_raises)
AlertPart(alerts_) ==
    IF alerts_ # <<>>
    THEN Str(Len(alerts_)) \o <<32, 97, 99, 116, 105, 118, 101, 32, 97, 108, 101, 114, 116, 40, 115, 41, 32, 105, 110, 99, 108, 117, 100, 105, 110, 103, 58, 32>>
             \o Join(sorted({alerts_[n].event.s[1] : n \in 1..Len(alerts_)}), <<44, 32>>)
    ELSE <<78, 111, 32, 97, 99, 116, 105, 118, 101, 32, 119, 101, 97, 116, 104, 101, 114, 32, 97, 108, 101, 114, 116, 115, 32, 102, 111, 114, 32, 77, 105, 115, 115, 105, 115, 115, 105, 112, 112, 105>>

\* lines 382-383
HighsPart(highs) ==
    <<72, 105, 103, 104, 115, 32, 114, 97, 110, 103, 105, 110, 103, 32, 102, 114, 111, 109, 32>> \o Str(MinOfList(highs)) \o DegreesF
        \o <<32, 116, 111, 32>> \o Str(MaxOfList(highs)) \o DegreesF
        \o <<32, 97, 99, 114, 111, 115, 115, 32, 116, 104, 101, 32, 115, 116, 97, 116, 101>>

\* lines 384-385
LowsPart(lows) ==
    <<76, 111, 119, 115, 32, 114, 97, 110, 103, 105, 110, 103, 32, 102, 114, 111, 109, 32>> \o Str(MinOfList(lows)) \o DegreesF
        \o <<32, 116, 111, 32>> \o Str(MaxOfList(lows)) \o DegreesF

\* a summary reduced to the two fields build_statewide_overview reads
Temperatures(high_temp, low_temp) == [high_temp |-> high_temp, low_temp |-> low_temp]

build_statewide_overview(alerts_, regional_summaries, severe_summary, rainfall_summary, tropical_summary) ==
    LET highs == NotNone([n \in 1..Len(regional_summaries) |-> regional_summaries[n].high_temp])
        lows == NotNone([n \in 1..Len(regional_summaries) |-> regional_summaries[n].low_temp])
        parts == <<AlertPart(alerts_)>>
                 \o (IF highs # <<>> THEN <<HighsPart(highs)>> ELSE <<>>)
                 \o (IF lows # <<>> THEN <<LowsPart(lows)>> ELSE <<>>)
                 \o (IF Truthy(tropical_summary)
                     THEN <<<<84, 114, 111, 112, 105, 99, 97, 108, 58, 32>> \o tropical_summary[1]>> ELSE <<>>)
                 \o (IF Truthy(severe_summary)
                     THEN <<<<83, 101, 118, 101, 114, 101, 58, 32>> \o severe_summary[1]>> ELSE <<>>)
                 \o (IF Truthy(rainfall_summary)
                     THEN <<<<82, 97, 105, 110, 102, 97, 108, 108, 58, 32>> \o rainfall_summary[1]>> ELSE <<>>)
    IN  Join(parts, <<46, 32>>)

\* build_briefing, lines 504-506: the call, which does not pass on the
\* winter summary of line 497
StatewideOverviewOfBriefing(alerts_, regional_summaries, severe_summary, rainfall_summary, winter_summary, tropical_summary) ==
    build_statewide_overview(alerts_, regional_summaries, severe_summary, rainfall_summary,
                             tropical_summary)

----------------------------------------------------------------------------
(* SpecOverview: the alerts, whose events are strings, the temperatures of *)
(* the regional summaries and the four hazard summaries are drawn, and the *)
(* overview is built as build_briefing builds it.                          *)

FloodWatch == <<70, 108, 111, 111, 100, 32, 87, 97, 116, 99, 104>>

TornadoWarning == <<84, 111, 114, 110, 97, 100, 111, 32, 87, 97, 114, 110, 105, 110, 103>>

OverviewAlerts ==
    {<<>>,
     <<MkAlert(FloodWatch, <<Hinds>>)>>,
     <<MkAlert(TornadoWarning, <<Hinds>>), MkAlert(FloodWatch, <<DeSoto>>),
       MkAlert(FloodWatch, <<Rankin>>)>>}

OverviewTemperatures ==
    {<<>>,
     <<Temperatures(None, None)>>,
     <<Temperatures(Some(80), Some(60)), Temperatures(None, Some(55))>>,
     <<Temperatures(Some(75), None), Temperatures(Some(101), Some(70)),
       Temperatures(Some(5), Some(-3))>>}

SevereSummaries == {None, Some(<<68, 97, 121, 32, 49, 58, 32, 83, 108, 105, 103, 104, 116, 32, 82, 105, 115, 107, 32, 102, 111, 114, 32, 112, 111, 114, 116, 105, 111, 110, 115, 32, 111, 102, 32, 77, 105, 115, 115, 105, 115, 115, 105, 112, 112, 105>>)}

RainfallSummaries == {None, Some(<<77, 97, 114, 103, 105, 110, 97, 108, 32, 69, 120, 99, 101, 115, 115, 105, 118, 101, 32, 82, 97, 105, 110, 102, 97, 108, 108, 32, 82, 105, 115, 107>>)}

WinterSummaries ==
    {None, Some(<<70, 114, 101, 101, 122, 105, 110, 103, 32, 116, 101, 109, 112, 101, 114, 97, 116, 117, 114, 101, 115, 32, 101, 120, 112, 101, 99, 116, 101, 100, 32, 40, 108, 111, 119, 32, 111, 102, 32, 51, 48>> \o DegreesF
                  \o <<32, 110, 101, 97, 114, 32, 84, 117, 112, 101, 108, 111, 41>>)}

TropicalSummaries == {None, Some(<<72, 85, 32, 65, 108, 112, 104, 97, 32, 98, 101, 105, 110, 103, 32, 109, 111, 110, 105, 116, 111, 114, 101, 100>>)}

InitOverview ==
    /\ call_in \in [alerts : OverviewAlerts, regional_summaries : OverviewTemperatures,
                    severe_summary : SevereSummaries, rainfall_summary : RainfallSummaries,
                    winter_summary : WinterSummaries, tropical_summary : TropicalSummaries]
    /\ call_out = None

CallBuildStatewideOverview ==
    /\ call_out = None
    /\ call_out' = Some(StatewideOverviewOfBriefing(call_in.alerts, call_in.regional_summaries,
                                                    call_in.severe_summary,
                                                    call_in.rainfall_summary,
                                                    call_in.winter_summary,
                                                    call_in.tropical_summary))
    /\ UNCHANGED call_in

----------------------------------------------------------------------------
(* SpecGroup: a list of alerts is drawn, and group_alerts_by_type is       *)
(* applied.                                                                *)

\* the longest list of alerts given to group_alerts_by_type
MaxGroupAlerts == 3

\* alerts of three event types, three of them of the same type
GroupAlerts ==
    {MkAlert("Tornado Warning", <<Hinds>>),
     MkAlert("Flood Warning", <<Hinds>>),
     MkAlert("Flood Warning", <<Rankin>>),
     MkAlert("Flood Warning", <<DeSoto>>),
     MkAlert("Winter Storm Watch", <<DeSoto>>)}

InitGroup ==
    /\ call_in \in [alerts : SeqsUpTo(GroupAlerts, MaxGroupAlerts)]
    /\ call_out = None

CallGroupAlertsByType ==
    /\ call_out = None
    /\ call_out' = Some(group_alerts_by_type(call_in.alerts))
    /\ UNCHANGED call_in

----------------------------------------------------------------------------
(* fetch_spc.py: get_max_risk_from_outlooks.                               *)

\* lines 225-233
risk_priority ==
    (SPC("NONE") :> 0) @@ (SPC("TSTM") :> 1) @@ (SPC("MRGL") :> 2) @@ (SPC("SLGT") :> 3)
        @@ (SPC("ENH") :> 4) @@ (SPC("MDT") :> 5) @@ (SPC("HIGH") :> 6)

\* the mutant of TakeRisk: the risk of the polygon is taken whatever its rank
TakeRisk_any(max_risk, risk) == risk

\* lines 241-242
TakeRisk(max_risk, risk) ==
    IF DictGet(risk_priority, risk, 0) > DictGet(risk_priority, max_risk, 0)
    THEN risk
    ELSE max_risk

\* lines 239-242: the loop over the polygons of an outlook from n on;
\* polygon.get("risk", SPCRisk.NONE)
RECURSIVE MaxRiskOfPolygons(_, _, _)
MaxRiskOfPolygons(max_risk, polygons, n) ==
    IF n > Len(polygons)
    THEN max_risk
    ELSE MaxRiskOfPolygons(TakeRisk(max_risk,
                                    IF polygons[n].risk = None
                                    THEN SPC("NONE")
                                    ELSE polygons[n].risk[1]),
                           polygons, n + 1)

\* lines 237-242: the loop over the outlooks from n on
RECURSIVE MaxRiskOfOutlooks(_, _, _, _)
MaxRiskOfOutlooks(max_risk, outlooks, day, n) ==
    IF n > Len(outlooks)
    THEN max_risk
    ELSE MaxRiskOfOutlooks(IF outlooks[n].day = day
                           THEN MaxRiskOfPolygons(max_risk, outlooks[n].polygons, 1)
                           ELSE max_risk,
                           outlooks, day, n + 1)

get_max_risk_from_outlooks(outlooks, day) == MaxRiskOfOutlooks(SPC("NONE"), outlooks, day, 1)

----------------------------------------------------------------------------
(* SpecMaxRisk: a list of outlooks and a day are drawn, and                *)
(* get_max_risk_from_outlooks is applied.                                  *)

\* the longest list of outlooks given to get_max_risk_from_outlooks
MaxOutlooks == 2

\* the last day of which outlooks are drawn and asked for
LastDay == 2

\* a polygon with its risk alone, as in the tests
RiskPolygon(name) == MkSpcPolygon(SPC(name), <<>>)

RiskPolygonLists ==
    {<<>>,
     <<RiskPolygon("SLGT")>>,
     <<RiskPolygon("MRGL"), RiskPolygon("ENH"), RiskPolygon("SLGT")>>,
     <<RiskPolygon("MDT"), RiskPolygon("HIGH"), RiskPolygon("ENH")>>,
     <<RiskPolygon("NONE"), RiskPolygon("TSTM"), MkEroPolygon(ERO("HIGH"), <<>>)>>}

InitMaxRisk ==
    /\ call_in \in [outlooks : SeqsUpTo({MkOutlook(day, polygons) :
                                            day \in 1..LastDay, polygons \in RiskPolygonLists},
                                        MaxOutlooks),
                    day : 1..(LastDay + 1)]
    /\ call_out = None

CallGetMaxRiskFromOutlooks ==
    /\ call_out = None
    /\ call_out' = Some(get_max_risk_from_outlooks(call_in.outlooks, call_in.day))
    /\ UNCHANGED call_in

----------------------------------------------------------------------------
(* analyze.py: build_severe_summary. The texts are sequences of code       *)
(* points.                                                                 *)

IsLetter(c) == (c >= 65 /\ c <= 90) \/ (c >= 97 /\ c <= 122)

\* str.title on ASCII text: a letter that follows a letter is lower-cased,
\* every other letter is upper-cased.  build_severe_summary applies it only
\* to the literals of risk_labels and to the defaults "severe risk" and
\* "thunder" (lines 247-248 and 256), which are ASCII
Title(s) ==
    [n \in 1..Len(s) |->
        IF n > 1 /\ IsLetter(s[n - 1]) THEN Lower(<<s[n]>>)[1] ELSE Upper(<<s[n]>>)[1]]

\* lines 223-231
risk_labels ==
    (SPC("NONE") :> None)
        @@ (SPC("TSTM") :> Some(<<103, 101, 110, 101, 114, 97, 108, 32, 116, 104, 117, 110, 100, 101, 114, 115, 116, 111, 114, 109, 32, 114, 105, 115, 107>>))
        @@ (SPC("MRGL") :> Some(<<109, 97, 114, 103, 105, 110, 97, 108, 32, 115, 101, 118, 101, 114, 101, 32, 114, 105, 115, 107>>))
        @@ (SPC("SLGT") :> Some(<<115, 108, 105, 103, 104, 116, 32, 115, 101, 118, 101, 114, 101, 32, 114, 105, 115, 107>>))
        @@ (SPC("ENH") :> Some(<<101, 110, 104, 97, 110, 99, 101, 100, 32, 115, 101, 118, 101, 114, 101, 32, 114, 105, 115, 107>>))
        @@ (SPC("MDT") :> Some(<<109, 111, 100, 101, 114, 97, 116, 101, 32, 115, 101, 118, 101, 114, 101, 32, 114, 105, 115, 107>>))
        @@ (SPC("HIGH") :> Some(<<72, 73, 71, 72, 32, 115, 101, 118, 101, 114, 101, 32, 114, 105, 115, 107>>))

\* line 242: list(risk_labels.keys()), the keys in the order of the literal
severe_risk_order == <<SPC("NONE"), SPC("TSTM"), SPC("MRGL"), SPC("SLGT"), SPC("ENH"), SPC("MDT"), SPC("HIGH")>>

\* the mutant of TakeCountyRisk: the risk of the county is taken whatever
\* its rank
TakeCountyRisk_any(max_risk, risk) == IF risk # SPC("NONE") THEN risk ELSE max_risk

\* lines 240-244: one county of the map
TakeCountyRisk(max_risk, risk) ==
    IF risk # SPC("NONE")
           /\ IndexIn(severe_risk_order, risk) > IndexIn(severe_risk_order, max_risk)
    THEN risk
    ELSE max_risk

\* lines 239-244: the loop over the items of the map that are left, in the
\* order of the names of the counties
RECURSIVE CountyMaxOver(_, _, _)
CountyMaxOver(max_risk, county_risks, left) ==
    IF left = {}
    THEN max_risk
    ELSE LET county == CHOOSE c \in left : \A d \in left : c = d \/ StrLess(c, d)
         IN  CountyMaxOver(TakeCountyRisk(max_risk, county_risks[county]), county_risks,
                           left \ {county})

\* lines 246-248: the segment of an outlook
SevereSegment(outlook, max_risk) ==
    <<68, 97, 121, 32>> \o Str(outlook.day) \o <<58, 32>>
        \o Title(DictGet(risk_labels, max_risk, Some(<<115, 101, 118, 101, 114, 101, 32, 114, 105, 115, 107>>))[1])
        \o <<32, 102, 111, 114, 32, 112, 111, 114, 116, 105, 111, 110, 115, 32, 111, 102, 32, 77, 105, 115, 115, 105, 115, 115, 105, 112, 112, 105>>

\* lines 234-248: the loop over the outlooks from n on
RECURSIVE SevereSummaryLoop(_, _, _)
SevereSummaryLoop(summaries, spc_outlooks, n) ==
    IF n > Len(spc_outlooks)
    THEN summaries
    ELSE LET outlook == spc_outlooks[n]
             max_risk == CountyMaxOver(SPC("NONE"), outlook.county_risks,
                                       DOMAIN outlook.county_risks)
         IN  IF outlook.county_risks = EmptyDict
             THEN SevereSummaryLoop(summaries, spc_outlooks, n + 1)
             ELSE SevereSummaryLoop(IF max_risk # SPC("NONE")
                                    THEN Append(summaries, SevereSegment(outlook, max_risk))
                                    ELSE summaries,
                                    spc_outlooks, n + 1)

\* lines 212-257: the narrative, or None
build_severe_summary(spc_outlooks, counties_config) ==
    LET summaries == SevereSummaryLoop(<<>>, spc_outlooks, 1)
        max_overall == get_max_risk_from_outlooks(spc_outlooks, 1)
    IN  IF summaries # <<>>
        THEN Some(Join(summaries, <<32, 124, 32>>))
        ELSE IF max_overall # SPC("NONE")
        THEN Some(<<68, 97, 121, 32, 49, 58, 32>>
                      \o Title(DictGet(risk_labels, max_overall, Some(<<116, 104, 117, 110, 100, 101, 114>>))[1])
                      \o <<32, 112, 111, 115, 115, 105, 98, 108, 101>>)
        ELSE None

----------------------------------------------------------------------------
(* SpecSevere: a list of severe outlooks is drawn, each with the polygons  *)
(* of its feed and the county map the aggregation made of them, and        *)
(* build_severe_summary is applied.                                        *)

\* the polygons of an outlook and the county map of these polygons: no
\* polygon, a polygon over no county, a polygon of an unknown label, and
\* polygons of several risks
RisksOfPolygons ==
    {<<<<>>, EmptyDict>>,
     <<<<RiskPolygon("TSTM")>>, EmptyDict>>,
     <<<<RiskPolygon("NONE")>>, (Hinds :> SPC("NONE"))>>,
     <<<<RiskPolygon("TSTM")>>, (Hinds :> SPC("TSTM"))>>,
     <<<<RiskPolygon("SLGT"), RiskPolygon("ENH"), RiskPolygon("NONE")>>,
       (Hinds :> SPC("SLGT")) @@ (DeSoto :> SPC("ENH")) @@ (Adams :> SPC("NONE"))>>,
     <<<<RiskPolygon("HIGH"), RiskPolygon("MDT")>>,
       (Rankin :> SPC("HIGH")) @@ (Yazoo :> SPC("MDT"))>>}

SevereOutlooks ==
    {WithCountyRisks(MkOutlook(day, r[1]), r[2]) : day \in 1..LastDay, r \in RisksOfPolygons}

InitSevere ==
    /\ call_in \in SeqsUpTo(SevereOutlooks, MaxOutlooks)
    /\ call_out = None

CallBuildSevereSummary ==
    /\ call_out = None
    /\ call_out' = Some(build_severe_summary(call_in, CountiesConfig))
    /\ UNCHANGED call_in

----------------------------------------------------------------------------
(* SpecByRegion: a list of entries of the county configuration is drawn,   *)
(* and get_counties_by_region is applied.                                  *)

\* the longest list of entries given to get_counties_by_region
MaxEntries == 3

\* entries with a name and a region, with a name and no key "region",
\* with a name and a null region, with no name, and with an empty name
RegionEntries ==
    {MkCounty(Some(Hinds), "Central", None, None),
     MkCounty(Some(Rankin), "Central", None, None),
     MkCounty(Some(DeSoto), "Northwest", None, None),
     MkCountyNoRegion(Some(Yazoo), None, None),
     MkCountyNullRegion(Some(Adams), None, None),
     MkCounty(None, "Northwest", None, None),
     MkCounty(Some(<<>>), "Delta", None, None)}

InitByRegion ==
    /\ call_in \in [counties : SeqsUpTo(RegionEntries, MaxEntries)]
    /\ call_out = None

CallGetCountiesByRegion ==
    /\ call_out = None
    /\ call_out' = Some(get_counties_by_region(call_in.counties))
    /\ UNCHANGED call_in

----------------------------------------------------------------------------
(* Initial states and frames of the components.                            *)

OthersIdle(c) ==
    /\ IF c = "risk" THEN TRUE ELSE IdleRisk
    /\ IF c = "pip" THEN TRUE ELSE IdlePip
    /\ IF c = "alerts" THEN TRUE ELSE IdleAlerts
    /\ IF c = "forecast" THEN TRUE ELSE IdleForecast
    /\ IF c = "geo" THEN TRUE ELSE IdleGeo
    /\ IF c = "briefing" THEN TRUE ELSE IdleBriefing
    /\ IF c = "call" THEN TRUE ELSE IdleCall

Frame(c) ==
    /\ IF c = "risk" THEN TRUE ELSE UNCHANGED riskVars
    /\ IF c = "pip" THEN TRUE ELSE UNCHANGED pipVars
    /\ IF c = "alerts" THEN TRUE ELSE UNCHANGED alertVars
    /\ IF c = "forecast" THEN TRUE ELSE UNCHANGED edfVars
    /\ IF c = "geo" THEN TRUE ELSE UNCHANGED geoVars
    /\ IF c = "briefing" THEN TRUE ELSE UNCHANGED bbVars
    /\ IF c = "call" THEN TRUE ELSE UNCHANGED callVars

InitRiskSpec == InitRisk /\ OthersIdle("risk")

NextRisk == Compare /\ Frame("risk")

SpecRisk == InitRiskSpec /\ [][NextRisk]_vars

InitPipSpec == InitPip /\ OthersIdle("pip")

NextPip == CallPointInPolygon /\ Frame("pip")

SpecPip == InitPipSpec /\ [][NextPip]_vars

InitPipFloatsSpec == InitPipFloats /\ OthersIdle("pip")

NextPipFloats == CallPointInPolygonFloats /\ Frame("pip")

SpecPipFloats == InitPipFloatsSpec /\ [][NextPipFloats]_vars

InitAlertsSpec == InitAlerts /\ OthersIdle("alerts")

NextAlerts == CallGetAlertCounties /\ Frame("alerts")

SpecAlerts == InitAlertsSpec /\ [][NextAlerts]_vars

InitForecastSpec == InitForecast /\ OthersIdle("forecast")

NextForecast == (LoopIteration \/ ReturnForecasts) /\ Frame("forecast")

SpecForecast == InitForecastSpec /\ [][NextForecast]_vars

\* the function is sequential code: the step that is enabled is taken
SpecForecastFair == SpecForecast /\ WF_vars(NextForecast)

InitGeoSpec == InitGeo /\ OthersIdle("geo")

NextGeo ==
    (ProcessPolygon \/ PolygonIndexError \/ ReturnCountyRisks \/ RollUp) /\ Frame("geo")

SpecGeo == InitGeoSpec /\ [][NextGeo]_vars

InitBriefingSpec == InitBriefing /\ OthersIdle("briefing")

NextBriefing ==
    (\/ FetchAlerts
     \/ FetchForecasts
     \/ \E src \in OutlookSources : FetchOutlooks(src)
     \/ \E src \in OutlookSources : AggregateOutlook(src)
     \/ \E src \in OutlookSources : AggregationError(src)
     \/ FetchTropical
     \/ BriefingError
     \/ ReturnBriefing) /\ Frame("briefing")

SpecBriefing == InitBriefingSpec /\ [][NextBriefing]_vars

InitSummariesSpec == InitSummaries /\ OthersIdle("call")

NextSummaries == CallBuildRegionalSummaries /\ Frame("call")

SpecSummaries == InitSummariesSpec /\ [][NextSummaries]_vars

InitOverviewSpec == InitOverview /\ OthersIdle("call")

NextOverview == CallBuildStatewideOverview /\ Frame("call")

SpecOverview == InitOverviewSpec /\ [][NextOverview]_vars

InitGroupSpec == InitGroup /\ OthersIdle("call")

NextGroup == CallGroupAlertsByType /\ Frame("call")

SpecGroup == InitGroupSpec /\ [][NextGroup]_vars

InitMaxRiskSpec == InitMaxRisk /\ OthersIdle("call")

NextMaxRisk == CallGetMaxRiskFromOutlooks /\ Frame("call")

SpecMaxRisk == InitMaxRiskSpec /\ [][NextMaxRisk]_vars

InitSevereSpec == InitSevere /\ OthersIdle("call")

NextSevere == CallBuildSevereSummary /\ Frame("call")

SpecSevere == InitSevereSpec /\ [][NextSevere]_vars

InitByRegionSpec == InitByRegion /\ OthersIdle("call")

NextByRegion == CallGetCountiesByRegion /\ Frame("call")

SpecByRegion == InitByRegionSpec /\ [][NextByRegion]_vars

----------------------------------------------------------------------------
(* The scales as the specification lists them, lowest first.               *)

SevereScale == <<SPC("NONE"), SPC("TSTM"), SPC("MRGL"), SPC("SLGT"), SPC("ENH"), SPC("MDT"), SPC("HIGH")>>

RainfallScale == <<ERO("NONE"), ERO("MRGL"), ERO("SLGT"), ERO("MDT"), ERO("HIGH")>>

\* the position of a value in a scale that holds it
Position(scale, v) == CHOOSE n \in 1..Len(scale) : scale[n] = v

OneScale(S) == \E scale \in {SevereScale, RainfallScale} : S \subseteq Range(scale)

ScaleOf(v) == IF v \in Range(SevereScale) THEN SevereScale ELSE RainfallScale

\* C5: restricted to one scale, should_upgrade_risk is a strict total order:
\* irreflexive, transitive, never both ways between two distinct values,
\* exactly one way between two distinct values, true from NONE to every
\* other value, and it is the order in which the scale is listed.
C5_StrictOrder ==
    (cmp_out # None /\ OneScale({cmp_in[1], cmp_in[2], cmp_in[3]})) =>
        LET x == cmp_in[1]
            y == cmp_in[2]
            z == cmp_in[3]
            r == cmp_out[1]
            scale == ScaleOf(x)
        IN  /\ (x = y => ~r.xy)
            /\ ((r.xy /\ r.yz) => r.xz)
            /\ (x # y => ~(r.xy /\ r.yx))
            /\ (x # y => (r.xy \/ r.yx))
            /\ ((x = scale[1] /\ y # scale[1]) => r.xy)
            /\ (r.xy <=> Position(scale, x) < Position(scale, y))

\* C5 witness: SLGT < ENH < HIGH of the severe scale has been compared, and
\* so has NONE against MRGL of the rainfall scale
C5_Witness ==
    /\ cmp_out # None
    /\ cmp_in = <<SPC("SLGT"), SPC("ENH"), SPC("HIGH")>>
    /\ cmp_out[1].xy /\ cmp_out[1].yz /\ cmp_out[1].xz /\ ~cmp_out[1].yx

\* C20: should_upgrade_risk(current, new) is true exactly when the two values
\* are of one scale and new stands after current in that scale; between a
\* value of the severe scale and a value of the rainfall scale it is never
\* true.
C20_SameScaleOnly ==
    cmp_out # None =>
        LET current == cmp_in[1]
            new == cmp_in[2]
        IN  cmp_out[1].xy <=>
                /\ ScaleOf(current) = ScaleOf(new)
                /\ Position(ScaleOf(new), new) > Position(ScaleOf(current), current)

----------------------------------------------------------------------------
(* Ground truth for convex rings, by half planes and not by ray casting.   *)

\* twice the signed area of the triangle (a, b, p): positive when p lies to
\* the left of the directed edge a -> b
Cross(a, b, p) == (b[1] - a[1]) * (p[2] - a[2]) - (b[2] - a[2]) * (p[1] - a[1])

\* the edges of a ring as pairs of consecutive vertices, zero-length edges
\* (the repeated closing vertex) left out
RingEdges(ring) ==
    {<<ring[n], ring[n + 1]>> : n \in 1..(Len(ring) - 1)} \ {<<v, v>> : v \in Range(ring)}

\* +1 for a counter-clockwise convex ring, -1 for a clockwise one
Orientation(ring) ==
    IF \E e \in RingEdges(ring) : \E v \in Range(ring) : Cross(e[1], e[2], v) > 0 THEN 1 ELSE -1

StrictlyInside(ring, p) ==
    \A e \in RingEdges(ring) : Orientation(ring) * Cross(e[1], e[2], p) > 0

StrictlyOutside(ring, p) ==
    \E e \in RingEdges(ring) : Orientation(ring) * Cross(e[1], e[2], p) < 0

\* C8: for a simple ring (axis-aligned rectangle, triangle) point_in_polygon
\* returns True for every point strictly inside the ring and False for every
\* point strictly outside it, and it does not raise.
C8_RayCasting ==
    pip_out # None =>
        LET p == pip_in[1]
            ring == pip_in[2][1]
        IN  /\ ~pip_out[1].raised
            /\ (StrictlyInside(ring, p) => pip_out[1].inside)
            /\ (StrictlyOutside(ring, p) => ~pip_out[1].inside)

\* C8 witness: the centre of the square of the tests was found inside
C8_Witness ==
    /\ pip_out # None
    /\ pip_in = <<<<5, 5>>, <<SquareRing>>>>
    /\ pip_out[1].inside

\* the four outside points of the tests were found outside
C8_WitnessOutside ==
    /\ pip_out # None
    /\ pip_in[2] = <<SquareRing>>
    /\ pip_in[1] \in {<<15, 5>>, <<-5, 5>>, <<5, 15>>, <<5, -5>>}
    /\ ~pip_out[1].inside

\* the ring without the repetition of its first vertex at the end
Unclosed(ring) == SubSeq(ring, 1, Len(ring) - 1)

\* C24: for a ring of at least three vertices and every test point,
\* point_in_polygon gives the same result for the ring without a repeated
\* first vertex at the end and for the ring with the first vertex appended.
C24_ClosureOptional ==
    pip_out # None =>
        LET ring == pip_in[2][1]
            open == Unclosed(ring)
        IN  (Len(open) >= 3 /\ ring = Append(open, open[1])) =>
                /\ ~pip_out[1].raised
                /\ ~pip_raises(pip_in[1], <<open>>)
                /\ pip_out[1].inside = point_in_polygon(pip_in[1], <<open>>)

\* a point to the left of the triangle of the tests, or the centre of the
\* square, has been tested
C24_Witness ==
    /\ pip_out # None
    /\ pip_in \in {<<<<-3, 5>>, <<TriangleRing>>>>, <<<<5, 5>>, <<SquareRing>>>>}
    /\ Len(Unclosed(pip_in[2][1])) >= 3
    /\ pip_out[1].inside = point_in_polygon(pip_in[1], <<Unclosed(pip_in[2][1])>>)

----------------------------------------------------------------------------
\* C23: for a polygon without rings, with an empty outer ring, or with an
\* outer ring of one or two vertices, point_in_polygon does not raise and
\* returns False, whatever the test point.
C23_DegenerateOutside ==
    pip_out # None => (~pip_out[1].raised /\ ~pip_out[1].inside)

----------------------------------------------------------------------------
\* C9: get_alert_counties returns exactly the non-empty whitespace-stripped
\* tokens of all the alerts, each once, in strictly ascending order of
\* Python's string comparison; no alerts give the empty list.
C9_AlertCounties ==
    gac_out # None =>
        LET result == gac_out[1]
            tokens == UNION {Range(gac_in[n].affected_counties) : n \in 1..Len(gac_in)}
        IN  /\ Range(result) = {strip(t) : t \in tokens} \ {<<>>}
            /\ \A n \in 1..(Len(result) - 1) : StrLess(result[n], result[n + 1])
            /\ (gac_in = <<>> => result = <<>>)

\* C9 witness: three alerts with the tokens Yazoo, Adams, Lincoln gave
\* [Adams, Lincoln, Yazoo]
C9_Witness ==
    /\ gac_out # None
    /\ gac_in = <<MkAlert("Test", <<Yazoo>>), MkAlert("Test", <<Adams>>), MkAlert("Test", <<Lincoln>>)>>
    /\ gac_out[1] = <<Adams, Lincoln, Yazoo>>

\* tokens with surrounding blanks and a repeated county were merged
C9_WitnessStripped ==
    /\ gac_out # None
    /\ gac_in = <<MkAlert("Test", <<Blank \o Adams \o Blank, <<>>>>), MkAlert("Test", <<Adams>>)>>
    /\ gac_out[1] = <<Adams>>

----------------------------------------------------------------------------
\* the value of i after the entry n was built
IndexAfter(n) == IF n < Len(edf_starts) THEN edf_starts[n + 1] ELSE edf_i

\* C7: at the return of extract_daily_forecasts every daytime period the
\* pass has gone through that is immediately followed by a period whose
\* name contains "Night" or equals "Tonight" has given exactly one entry for
\* the two periods: the label is the daytime period's name, the high the
\* daytime temperature, the low the following period's temperature, the
\* conditions the daytime period's, both periods are consumed, and no
\* other entry is built from either.  Monday/day/80/pop 20 followed by
\* Monday Night/night/60/pop 40 gives the single entry Monday, 80, 60,
\* pop 40.
C7_DayNightPair ==
    /\ edf_pc = "returned" =>
          \A i \in 0..(edf_i - 1) :
              (/\ i + 1 < Len(edf_periods)
               /\ At(edf_periods, i).isDaytime
               /\ \/ Contains(At(edf_periods, i + 1).name, Night)
                  \/ At(edf_periods, i + 1).name = Tonight)
              => \E n \in 1..Len(edf_out) :
                     /\ edf_starts[n] = i
                     /\ edf_out[n].day_name = At(edf_periods, i).name
                     /\ edf_out[n].high_temp = At(edf_periods, i).temperature
                     /\ edf_out[n].low_temp = At(edf_periods, i + 1).temperature
                     /\ edf_out[n].conditions = Some(At(edf_periods, i).shortForecast)
                     /\ IndexAfter(n) = i + 2
                     /\ \A m \in 1..Len(edf_out) : m # n => edf_starts[m] \notin {i, i + 1}
    /\ (/\ edf_pc = "returned"
        /\ edf_periods = <<MkPeriod(Monday, TRUE, "Showers", 80, Some(20)),
                           MkPeriod(MondayNight, FALSE, "Cloudy", 60, Some(40))>>)
       => edf_out = <<[day_name |-> Monday, conditions |-> Some("Showers"),
                       high_temp |-> Some(80), low_temp |-> Some(60), pop |-> Some(40)]>>

----------------------------------------------------------------------------
(* Claims on the aggregation of polygons.                                  *)

\* the bijections of 1..n
Perms(n) == {f \in [1..n -> 1..n] : \A a, b \in 1..n : f[a] = f[b] => a = b}

Permuted(s, f) == [n \in 1..Len(s) |-> s[f[n]]]

\* the merge of two county maps by the update rule of the aggregation: an
\* entry of m2 is taken when the county is new or its risk is an upgrade
RECURSIVE MergeOver(_, _, _)
MergeOver(m1, m2, left) ==
    IF left = {}
    THEN m1
    ELSE LET county == CHOOSE c \in left : TRUE
         IN  MergeOver(UpgradeCounty(m1, county, m2[county]), m2, left \ {county})

Merge(m1, m2) == MergeOver(m1, m2, DOMAIN m2)

\* the resolution of every polygon of the catalogues under every environment
HitsOf ==
    [e \in GeoEnvs |-> [p \in SpcPolygons \cup EroPolygons |->
        IF Skipped(p) THEN <<>> ELSE CountiesHit(p, e, CountiesConfig)]]

\* the aggregation of a list: every polygon in turn gives its risk to the
\* counties it resolves to, by the update rule
RECURSIVE AggregateFrom(_, _, _)
AggregateFrom(county_risks, polys, n) ==
    IF n > Len(polys)
    THEN county_risks
    ELSE AggregateFrom(UpgradeLoop(county_risks, HitsOf[geo_env][polys[n]],
                                   PolygonRisk(polys[n])[1], 1),
                       polys, n + 1)

Aggregate(polys) == AggregateFrom(EmptyDict, polys, 1)

\* the sublist of s at the indices of I, in the order of s
RECURSIVE SubList(_, _, _)
SubList(s, I, n) ==
    IF n > Len(s)
    THEN <<>>
    ELSE (IF n \in I THEN <<s[n]>> ELSE <<>>) \o SubList(s, I, n + 1)

\* C3: the county map returned for a list of polygons of one scale is the
\* map of every reordering of the list, and the map obtained by splitting
\* the list into two sublists, or cutting it into three, aggregating each
\* and merging the maps pairwise, in either order and either grouping.
C3_OrderIndependent ==
    geo_pc = "returned" =>
        /\ \A f \in Perms(Len(geo_polys)) : Aggregate(Permuted(geo_polys, f)) = geo_risks
        /\ \A I \in SUBSET (1..Len(geo_polys)) :
              LET m1 == Aggregate(SubList(geo_polys, I, 1))
                  m2 == Aggregate(SubList(geo_polys, (1..Len(geo_polys)) \ I, 1))
              IN  Merge(m1, m2) = geo_risks
        /\ \A a \in 0..Len(geo_polys) : \A b \in a..Len(geo_polys) :
              LET m1 == Aggregate(SubSeq(geo_polys, 1, a))
                  m2 == Aggregate(SubSeq(geo_polys, a + 1, b))
                  m3 == Aggregate(SubSeq(geo_polys, b + 1, Len(geo_polys)))
              IN  /\ Merge(Merge(m1, m2), m3) = geo_risks
                  /\ Merge(m1, Merge(m2, m3)) = geo_risks

\* three polygons over the centroid of Hinds County with three different
\* risks, the lowest last, have been aggregated
C3_Witness ==
    /\ geo_pc = "returned"
    /\ ~Precise(geo_env)
    /\ geo_polys = <<MkSpcPolygon(SPC("SLGT"), <<RingA>>), MkSpcPolygon(SPC("MRGL"), <<RingAB>>),
                     MkSpcPolygon(SPC("TSTM"), RingsWithHole)>>
    /\ geo_risks[Hinds] = SPC("SLGT")
    /\ geo_risks[Rankin] = SPC("MRGL")
    /\ geo_risks[DeSoto] = SPC("TSTM")

\* the set of counties a polygon resolves to under the strategy of the run
Resolved(polygon_data) ==
    IF Skipped(polygon_data)
    THEN {}
    ELSE Range(CountiesHit(polygon_data, geo_env, CountiesConfig))

\* C4: for a list of one polygon, the counties of the returned map are the
\* counties the polygon resolves to, each with the risk of the polygon; a
\* county that is not in the map reads as NONE.  A rectangle given to the
\* centroid test resolves to the counties whose centroid lies in it.
C4_SinglePolygon ==
    (geo_pc = "returned" /\ Len(geo_polys) = 1) =>
        LET P == geo_polys[1]
        IN  /\ DOMAIN geo_risks = Resolved(P)
            /\ \A c \in DOMAIN geo_risks : geo_risks[c] = PolygonRisk(P)[1]
            /\ \A n \in 1..Len(CountiesConfig) :
                  LET county == CountiesConfig[n]
                  IN  (~NoName(county) /\ county.name[1] \notin Resolved(P)) =>
                          /\ DictGet(geo_risks, county.name[1], SPC("NONE")) = SPC("NONE")
                          /\ DictGet(geo_risks, county.name[1], ERO("NONE")) = ERO("NONE")
            /\ (~Precise(geo_env) /\ ~Skipped(P) /\ Len(P.rings) = 1 /\ Len(P.rings[1]) = 5) =>
                  DOMAIN geo_risks =
                      {CountiesConfig[n].name[1] : n \in
                          {m \in 1..Len(CountiesConfig) :
                              /\ ~NoName(CountiesConfig[m])
                              /\ CountiesConfig[m].lat # None
                              /\ CountiesConfig[m].lon # None
                              /\ BoxInsideOpen(<<CountiesConfig[m].lon[1], CountiesConfig[m].lat[1],
                                                 CountiesConfig[m].lon[1], CountiesConfig[m].lat[1]>>,
                                               BoxOf(P.rings[1]))}}

\* one MRGL polygon over the centroids of Hinds and Rankin has been aggregated
C4_Witness ==
    /\ geo_pc = "returned"
    /\ ~Precise(geo_env)
    /\ geo_polys = <<MkSpcPolygon(SPC("MRGL"), <<RingAB>>)>>
    /\ geo_risks = [c \in {Hinds, Rankin} |-> SPC("MRGL")]

\* the greatest of a non-empty set of values of one scale
Greatest(S) ==
    CHOOSE v \in S : \A w \in S : Position(ScaleOf(v), v) >= Position(ScaleOf(w), w)

\* the member counties of a region: the named entries of the configuration
MemberCounties(region) ==
    {CountiesConfig[n].name[1] : n \in
        {m \in 1..Len(CountiesConfig) :
            ~NoName(CountiesConfig[m]) /\ CountiesConfig[m].region = region}}

\* the greatest county risk of a region under a county map, absent as none
RegionGreatest(region, county_risks, none) ==
    Greatest({none} \cup {DictGet(county_risks, c, none) : c \in MemberCounties(region)})

\* C6: the risk of a region is the greatest of the risks of its member
\* counties, a county without an entry counting as NONE: for the region
\* risk of each regional summary on its scale, and for the region map of
\* get_highest_risk_by_region on both scales.
C6_RegionMaximum ==
    geo_pc = "rolled_up" =>
        LET severe == \A c \in DOMAIN geo_risks : geo_risks[c] \in SPCRisk
            rainfall == \A c \in DOMAIN geo_risks : geo_risks[c] \in EROCategory
            none == IF severe THEN SPC("NONE") ELSE ERO("NONE")
        IN  \A r \in RegionNames :
              /\ DictGet(geo_regions[1].by_region, r, none) = RegionGreatest(r, geo_risks, none)
              /\ severe => geo_regions[1].max_spc[r] = RegionGreatest(r, geo_risks, SPC("NONE"))
              /\ rainfall => geo_regions[1].max_ero[r] = RegionGreatest(r, geo_risks, ERO("NONE"))

\* Hinds at SLGT and Rankin at MRGL have given the Central region SLGT
C6_Witness ==
    /\ geo_pc = "rolled_up"
    /\ DictGet(geo_risks, Hinds, SPC("NONE")) = SPC("SLGT")
    /\ DictGet(geo_risks, Rankin, SPC("NONE")) = SPC("MRGL")
    /\ geo_regions[1].by_region[JsonString("Central")] = SPC("SLGT")
    /\ geo_regions[1].max_spc[JsonString("Central")] = SPC("SLGT")

\* a rainfall map has given the Central region its greatest category
C6_WitnessRainfall ==
    /\ geo_pc = "rolled_up"
    /\ DictGet(geo_risks, Hinds, ERO("NONE")) = ERO("SLGT")
    /\ DictGet(geo_risks, Rankin, ERO("NONE")) = ERO("MRGL")
    /\ geo_regions[1].max_ero[JsonString("Central")] = ERO("SLGT")

\* v does not stand before w in the scale of w
NotLower(v, w) == ScaleOf(v) = ScaleOf(w) /\ Position(ScaleOf(v), v) >= Position(ScaleOf(w), w)

\* the risks of the polygons of the list that resolve to the county
RisksOver(polys, county) ==
    {PolygonRisk(polys[n])[1] : n \in {m \in 1..Len(polys) : county \in Resolved(polys[m])}}

\* C21: during the fold of get_counties_in_outlook every step keeps every
\* county of the map in the map with a risk that is not lower in the scale
\* than before, and the returned map holds, for exactly the counties some
\* polygon resolves to, the greatest risk of the polygons resolving to it.
C21_MonotonicFold ==
    /\ [][\A c \in DOMAIN geo_risks :
            c \in DOMAIN geo_risks' /\ NotLower(geo_risks'[c], geo_risks[c])]_vars
    /\ [](geo_pc = "returned" =>
            /\ DOMAIN geo_risks = {c \in {Hinds, Rankin, DeSoto, Yazoo, Adams} :
                                      RisksOver(geo_polys, c) # {}}
            /\ \A c \in DOMAIN geo_risks : geo_risks[c] = Greatest(RisksOver(geo_polys, c)))

\* Hinds County has been given SLGT by the first polygon and has kept it
\* under the MRGL polygon that came next and also covers Rankin County
C21_Witness ==
    /\ geo_pc = "returned"
    /\ geo_polys = <<MkSpcPolygon(SPC("SLGT"), <<RingA>>), MkSpcPolygon(SPC("MRGL"), <<RingAB>>)>>
    /\ geo_risks = (Hinds :> SPC("SLGT")) @@ (Rankin :> SPC("MRGL"))

\* the polygons of a list with the later rings of each taken away
OuterOnly(polys) ==
    [n \in 1..Len(polys) |->
        IF polys[n].rings = <<>> THEN polys[n]
        ELSE [polys[n] EXCEPT !.rings = <<polys[n].rings[1]>>]]

\* the named counties of the configuration whose centroid is strictly
\* inside the rectangle ring
CentroidsIn(ring) ==
    {CountiesConfig[n].name[1] : n \in
        {m \in 1..Len(CountiesConfig) :
            /\ ~NoName(CountiesConfig[m])
            /\ CountiesConfig[m].lat # None
            /\ CountiesConfig[m].lon # None
            /\ BoxInsideOpen(<<CountiesConfig[m].lon[1], CountiesConfig[m].lat[1],
                               CountiesConfig[m].lon[1], CountiesConfig[m].lat[1]>>,
                             BoxOf(ring))}}

\* C25: under the centroid test the counties of a polygon are the counties
\* of its outer ring alone, so the returned map is the map of the polygons
\* without their later rings, and a county whose centroid is inside the
\* outer ring and inside a hole has an entry.
C25_OuterRingOnly ==
    (geo_pc = "returned" /\ ~Precise(geo_env)) =>
        /\ \A n \in 1..Len(geo_polys) :
              geo_polys[n].rings # <<>> =>
                  intersect_counties_with_point_check(geo_polys[n].rings, CountiesConfig)
                      = intersect_counties_with_point_check(<<geo_polys[n].rings[1]>>,
                                                            CountiesConfig)
        /\ geo_risks = get_counties_in_outlook(OuterOnly(geo_polys), geo_env, CountiesConfig)
        /\ \A n \in 1..Len(geo_polys) :
              (~Skipped(geo_polys[n]) /\ Len(geo_polys[n].rings) = 2) =>
                  (CentroidsIn(geo_polys[n].rings[1]) \cap CentroidsIn(geo_polys[n].rings[2]))
                      \subseteq DOMAIN geo_risks

\* the polygon with a hole over the centroid of Hinds County has given the
\* county its risk
C25_Witness ==
    /\ geo_pc = "returned"
    /\ ~Precise(geo_env)
    /\ geo_polys = <<MkSpcPolygon(SPC("TSTM"), RingsWithHole)>>
    /\ Hinds \in CentroidsIn(RingsWithHole[2])
    /\ Hinds \in DOMAIN geo_risks
    /\ geo_risks[Hinds] = SPC("TSTM")

\* the counties of a polygon by the precise strategy: the named features
\* whose boundary meets the polygon, and none when the polygon cannot be
\* built
PreciseCounties(polygon_data) ==
    IF ShapelyRaises(polygon_data.rings)
    THEN {}
    ELSE {CountiesGeojson[n].name[1] : n \in
             {m \in 1..Len(CountiesGeojson) :
                 /\ ~NoName(CountiesGeojson[m])
                 /\ CountiesGeojson[m].geometry # None
                 /\ Len(CountiesGeojson[m].geometry[1]) = 4
                 /\ ShapelyIntersects(CountiesGeojson[m].geometry[1], polygon_data.rings)}}

\* the counties of a polygon by the centroid strategy
CentroidCounties(polygon_data) ==
    Range(intersect_counties_with_point_check(polygon_data.rings, CountiesConfig))

\* the counties of a polygon by the one strategy of the run
OneStrategy(polygon_data) ==
    IF Skipped(polygon_data) THEN {}
    ELSE IF geo_env.shapely /\ geo_env.geojson # None THEN PreciseCounties(polygon_data)
    ELSE CentroidCounties(polygon_data)

\* C26: a run without the county boundaries never raises, and the counties
\* of the returned map are, for every polygon, those of the precise
\* intersection when the geometry library and the county boundaries are
\* both there and those of the centroid test otherwise; a polygon the
\* precise strategy fails on gives no county.
C26_OneStrategy ==
    /\ geo_env.geojson = None => geo_pc # "raised"
    /\ geo_pc = "returned" =>
          DOMAIN geo_risks = UNION {OneStrategy(geo_polys[n]) : n \in 1..Len(geo_polys)}

\* the larger of the values that are present, and none when none is
LargerPresent(pop, next_pop) ==
    IF pop = None THEN next_pop
    ELSE IF next_pop = None THEN pop
    ELSE IF next_pop[1] > pop[1] THEN next_pop ELSE pop

\* C19: the entry of a daytime period paired with the night that follows it
\* has as its chance of precipitation the larger of the values the two
\* periods have: none only when neither has one, and the 0 of one period
\* when the other has none.
C19_PopOfPair ==
    \A n \in 1..Len(edf_out) :
        LET i == edf_starts[n]
        IN  (/\ i + 1 < Len(edf_periods)
             /\ At(edf_periods, i).isDaytime
             /\ \/ Contains(At(edf_periods, i + 1).name, Night)
                \/ At(edf_periods, i + 1).name = Tonight)
            => edf_out[n].pop = LargerPresent(At(edf_periods, i).pop, At(edf_periods, i + 1).pop)

\* the daytime period at i is followed by its night
PairsWithNight(periods, i) ==
    /\ i + 1 < Len(periods)
    /\ At(periods, i).isDaytime
    /\ \/ Contains(At(periods, i + 1).name, Night)
       \/ At(periods, i + 1).name = Tonight

\* the nighttime period at i is followed by a period whose name does not
\* contain "Night"
PairsWithDay(periods, i) ==
    /\ i + 1 < Len(periods)
    /\ ~At(periods, i).isDaytime
    /\ ~Contains(At(periods, i + 1).name, Night)

\* C27: an iteration on a nighttime period followed by a period whose name
\* does not contain "Night" builds one entry with the low of the current
\* period and the high and the conditions of the next, and consumes both;
\* an iteration to which neither pairing rule applies, the one on the last
\* period included, builds an entry from the current period alone, with the
\* high alone for a daytime period and the low alone for a nighttime one,
\* and consumes one period.
C27_NightDayAndSingle ==
    \A n \in 1..Len(edf_out) :
        LET i == edf_starts[n]
            period == At(edf_periods, i)
        IN  /\ PairsWithDay(edf_periods, i) =>
                  /\ edf_out[n].low_temp = period.temperature
                  /\ edf_out[n].high_temp = At(edf_periods, i + 1).temperature
                  /\ edf_out[n].conditions = Some(At(edf_periods, i + 1).shortForecast)
                  /\ IndexAfter(n) = i + 2
            /\ (~PairsWithDay(edf_periods, i) /\ ~PairsWithNight(edf_periods, i)) =>
                  /\ edf_out[n].conditions = Some(period.shortForecast)
                  /\ edf_out[n].pop = period.pop
                  /\ period.isDaytime =>
                        edf_out[n].high_temp = period.temperature /\ edf_out[n].low_temp = None
                  /\ ~period.isDaytime =>
                        edf_out[n].low_temp = period.temperature /\ edf_out[n].high_temp = None
                  /\ IndexAfter(n) = i + 1

\* C27 witness: Tonight and Monday have given one entry with the low of the
\* night and the high and the conditions of the day, and the Monday that
\* follows, the last period, an entry with its high alone
C27_Witness ==
    /\ edf_pc = "returned"
    /\ edf_periods = <<MkPeriod(Tonight, FALSE, "Clear", 55, Some(20)),
                       MkPeriod(Monday, TRUE, "Showers", 80, Some(20)),
                       MkPeriod(Monday, TRUE, "Showers", 80, Some(20))>>
    /\ Len(edf_out) = 2
    /\ edf_out[1].low_temp = Some(55)
    /\ edf_out[1].high_temp = Some(80)
    /\ edf_out[1].conditions = Some("Showers")
    /\ edf_out[2].high_temp = Some(80)
    /\ edf_out[2].low_temp = None
    /\ edf_i = 3

\* the calendar day a period name stands for: Tonight is the night of
\* Today, and "<day> Night" the night of <day>
DayOfName(name) ==
    IF name = Tonight THEN Today
    ELSE IF Len(name) > Len(SpaceNight)
            /\ SubSeq(name, Len(name) - Len(SpaceNight) + 1, Len(name)) = SpaceNight
    THEN SubSeq(name, 1, Len(name) - Len(SpaceNight))
    ELSE name

\* the period b comes next after the period a in a forecast: the night of
\* the day of a, or the day after the night a (Monday is the day after
\* Today)
ComesNext(a, b) ==
    \/ a.isDaytime /\ ~b.isDaytime /\ DayOfName(b.name) = DayOfName(a.name) /\ b.name # a.name
    \/ ~a.isDaytime /\ b.isDaytime /\ DayOfName(a.name) = Today /\ b.name = Monday

\* the periods are in the order of the calendar, whichever half they begin on
Chronological(periods) ==
    \A k \in 1..(Len(periods) - 1) : ComesNext(periods[k], periods[k + 1])

\* C28: for periods in the order of the calendar, beginning on a day or on
\* a night, every entry built from two periods is built from the day and
\* the night of one calendar day and is labelled with the name of that day;
\* no entry has the label of a night and the high of the day after it.
C28_SameCalendarDay ==
    Chronological(edf_periods) =>
        \A n \in 1..Len(edf_out) :
            LET i == edf_starts[n]
            IN  IndexAfter(n) = i + 2 =>
                    /\ DayOfName(At(edf_periods, i).name)
                           = DayOfName(At(edf_periods, i + 1).name)
                    /\ edf_out[n].day_name = DayOfName(At(edf_periods, i).name)

\* the periods the iteration that started at i read into its entry:
\* periods[i], and periods[i + 1] in the two pairing branches
PeriodsRead(periods, i) == IF Rule(periods, i) = "single" THEN {i} ELSE {i, i + 1}

\* C13: extract_daily_forecasts terminates, with at most 7 entries; every
\* iteration advances the index by 1 or by 2; an iteration runs only while
\* fewer than 7 entries are built and periods are left, and the function
\* returns only when 7 entries are built or every period is consumed; every
\* period before the final index is read into exactly one entry, and the
\* entries are in the order of the periods.
C13_Terminates ==
    /\ <>(edf_pc = "returned")
    /\ [](Len(edf_out) <= DailyCap)
    /\ [][edf_out' # edf_out =>
              /\ edf_i' - edf_i \in {1, 2}
              /\ Len(edf_out') = Len(edf_out) + 1
              /\ Len(edf_out) < DailyCap /\ edf_i < Len(edf_periods)]_vars
    /\ [](edf_pc = "returned" =>
              /\ Len(edf_out) = DailyCap \/ edf_i = Len(edf_periods)
              /\ edf_i <= Len(edf_periods)
              /\ \A j \in 0..(edf_i - 1) :
                     Cardinality({n \in 1..Len(edf_out) :
                                     j \in PeriodsRead(edf_periods, edf_starts[n])}) = 1
              /\ \A n \in 1..Len(edf_out) :
                     PeriodsRead(edf_periods, edf_starts[n]) \subseteq 0..(edf_i - 1)
              /\ \A n \in 1..(Len(edf_out) - 1) : edf_starts[n] < edf_starts[n + 1])

\* C13 witness: the function has returned 7 entries built from pairs, with
\* periods left over
C13_Witness ==
    /\ edf_pc = "returned"
    /\ Len(edf_out) = DailyCap
    /\ edf_i = 2 * DailyCap
    /\ edf_i < Len(edf_periods)

\* the rings of the polygon are missing, or one of them has fewer than the
\* four positions of a closed ring, or a position of fewer than two
\* coordinates
Malformed(polygon_data) ==
    \/ polygon_data.rings = <<>>
    \/ \E r \in 1..Len(polygon_data.rings) :
           \/ Len(polygon_data.rings[r]) < 4
           \/ \E n \in 1..Len(polygon_data.rings[r]) : Len(polygon_data.rings[r][n]) < 2

WellFormed(outlook_polygons) ==
    SelectSeq(outlook_polygons, LAMBDA polygon_data : ~Malformed(polygon_data))

\* C12: with either strategy get_counties_in_outlook raises no error on a
\* list that holds malformed polygons, and the dict it returns is the one
\* it returns for the list without them.
C12_MalformedSkipped ==
    /\ geo_pc # "raised"
    /\ geo_pc = "returned" =>
           /\ ~get_counties_in_outlook_raises(WellFormed(geo_polys), geo_env, CountiesConfig)
           /\ geo_risks = get_counties_in_outlook(WellFormed(geo_polys), geo_env, CountiesConfig)

----------------------------------------------------------------------------
(* Claims on build_regional_summaries.                                     *)

\* a letter without its case: the small letter of a capital letter
FoldCase(ch) == IF ch < 128 THEN (IF ch >= 65 /\ ch <= 90 THEN ch + 32 ELSE ch) ELSE MapByRuns(ch, LowerRuns)

\* name occurs in token when the case of the letters is ignored
OccursIn(name, token) ==
    \E offset \in 0..(Len(token) - Len(name)) :
        \A j \in 1..Len(name) : FoldCase(token[offset + j]) = FoldCase(name[j])

\* the names of the counties of the configuration that are of the region
CountyNamesOf(region) ==
    {CountiesConfig[n].name[1] :
        n \in {m \in 1..Len(CountiesConfig) :
                  ~NoName(CountiesConfig[m]) /\ CountiesConfig[m].region = region}}

\* a token of the alert holds the name of a county of the region
AlertOfRegion(alert, region) ==
    \E a \in 1..Len(alert.affected_counties) : \E name \in CountyNamesOf(region) :
        OccursIn(name, alert.affected_counties[a])

\* the positions of the input at which an alert of the region stands
PositionsOf(alerts_, region) == {k \in 1..Len(alerts_) : AlertOfRegion(alerts_[k], region)}

\* the m-th smallest element of a set of numbers
Nth(S, m) == CHOOSE k \in S : Cardinality({j \in S : j < k}) = m - 1

\* C14: in every regional summary the alert list holds the alerts one of
\* whose tokens contains, whatever the case of the letters, the name of a
\* county of the region, and no other: each of these alerts once, in the
\* order of the input.
C14_RegionAlerts ==
    call_out # None =>
        \A n \in 1..Len(call_out[1]) :
            LET summary == call_out[1][n]
                positions == PositionsOf(call_in.alerts, summary.region)
            IN  /\ Len(summary.alerts) = Cardinality(positions)
                /\ \A m \in 1..Len(summary.alerts) :
                       summary.alerts[m] = call_in.alerts[Nth(positions, m)]

\* C14 witness: an alert with two tokens of the region Central, in capital
\* letters and in small letters, is once in the list of Central, after the
\* alert that came before it, and the alert before it is in the list of
\* Northwest too
C14_Witness ==
    /\ call_out # None
    /\ call_in.alerts = <<MkAlert("Flood Watch", <<DeSoto, Rankin>>),
                          MkAlert("Heat Advisory", <<<<82, 65, 78, 75, 73, 78, 32, 67, 79, 85, 78, 84, 89>>, <<104, 105, 110, 100, 115>>>>)>>
    /\ Len(call_out[1]) = 2
    /\ call_out[1][1].region = JsonString("Central")
    /\ call_out[1][1].alerts = call_in.alerts
    /\ call_out[1][2].region = JsonString("Northwest")
    /\ call_out[1][2].alerts = <<call_in.alerts[1]>>

\* the day-1 outlooks of a list
Day1Outlooks(outlooks) == {n \in 1..Len(outlooks) : outlooks[n].day = 1}

\* the greatest risk that the day-1 outlooks of the list give to the county
GreatestDay1(outlooks, county, none) ==
    Greatest({none} \cup {outlooks[n].county_risks[county] :
                            n \in {m \in Day1Outlooks(outlooks) :
                                      county \in DOMAIN outlooks[m].county_risks}})

\* C22: the day-1 risk of the region of every summary is the greatest, over
\* the member counties of the region and over all the day-1 outlooks of the
\* hazard type, of the county risks, and it is the same for every order of
\* the outlooks.
C22_Day1Maximum ==
    call_out # None =>
        LET spc == call_in.outlooks.spc
            ero == call_in.outlooks.ero
        IN  /\ \A n \in 1..Len(call_out[1]) :
                  LET summary == call_out[1][n]
                      members == MemberCounties(summary.region)
                  IN  /\ summary.spc_risk_day1 =
                             Greatest({SPC("NONE")} \cup
                                      {GreatestDay1(spc, c, SPC("NONE")) : c \in members})
                      /\ summary.ero_risk_day1 =
                             Greatest({ERO("NONE")} \cup
                                      {GreatestDay1(ero, c, ERO("NONE")) : c \in members})
            /\ \A f \in Perms(Len(spc)) : \A g \in Perms(Len(ero)) :
                  LET other == build_regional_summaries(call_in.forecasts, call_in.alerts,
                                                        Permuted(spc, f), Permuted(ero, g),
                                                        CountiesConfig)
                  IN  \A n \in 1..Len(other) :
                        /\ other[n].spc_risk_day1 = call_out[1][n].spc_risk_day1
                        /\ other[n].ero_risk_day1 = call_out[1][n].ero_risk_day1

----------------------------------------------------------------------------
(* Claims on build_statewide_overview.                                     *)

\* the offsets at which piece stands in text
OffsetsOf(piece, text) ==
    {offset \in 0..(Len(text) - Len(piece)) : SubSeq(text, offset + 1, offset + Len(piece)) = piece}

\* the hazard summaries in the order of their definition: severe, rainfall,
\* winter, tropical
HazardSummaries(in) ==
    <<in.severe_summary, in.rainfall_summary, in.winter_summary, in.tropical_summary>>

\* the parts the overview is to have, in their order: the alerts, the highs,
\* the lows, and the hazard summaries that are present
PartsExpected(in) ==
    LET highs == {in.regional_summaries[n].high_temp[1] :
                     n \in {m \in 1..Len(in.regional_summaries) :
                               in.regional_summaries[m].high_temp # None}}
        lows == {in.regional_summaries[n].low_temp[1] :
                    n \in {m \in 1..Len(in.regional_summaries) :
                              in.regional_summaries[m].low_temp # None}}
        Least(S) == CHOOSE v \in S : \A w \in S : v <= w
        Most(S) == CHOOSE v \in S : \A w \in S : v >= w
        hazards == HazardSummaries(in)
    IN  <<IF in.alerts = <<>>
          THEN <<78, 111, 32, 97, 99, 116, 105, 118, 101, 32, 119, 101, 97, 116, 104, 101, 114, 32, 97, 108, 101, 114, 116, 115>>
          ELSE Str(Len(in.alerts)) \o <<32, 97, 99, 116, 105, 118, 101, 32, 97, 108, 101, 114, 116, 40, 115, 41, 32, 105, 110, 99, 108, 117, 100, 105, 110, 103, 58, 32>>
                   \o Join(sorted({in.alerts[n].event.s[1] : n \in 1..Len(in.alerts)}), <<44, 32>>)>>
        \o (IF highs = {} THEN <<>>
            ELSE <<<<72, 105, 103, 104, 115, 32, 114, 97, 110, 103, 105, 110, 103, 32, 102, 114, 111, 109, 32>> \o Str(Least(highs)) \o DegreesF
                     \o <<32, 116, 111, 32>> \o Str(Most(highs)) \o DegreesF>>)
        \o (IF lows = {} THEN <<>>
            ELSE <<<<76, 111, 119, 115, 32, 114, 97, 110, 103, 105, 110, 103, 32, 102, 114, 111, 109, 32>> \o Str(Least(lows)) \o DegreesF
                     \o <<32, 116, 111, 32>> \o Str(Most(lows)) \o DegreesF>>)
        \o NotNone(hazards)

\* C15: the overview holds each of its parts once, and in this order: the
\* alert count with the distinct event types, the least and the greatest
\* high, the least and the greatest low, then the hazard summaries that are
\* present, in the order severe, rainfall, winter, tropical.
C15_FixedOrder ==
    call_out # None =>
        LET parts == PartsExpected(call_in)
        IN  /\ \A n \in 1..Len(parts) : Cardinality(OffsetsOf(parts[n], call_out[1])) = 1
            /\ \A n \in 1..(Len(parts) - 1) :
                   \A o1 \in OffsetsOf(parts[n], call_out[1]) :
                       \A o2 \in OffsetsOf(parts[n + 1], call_out[1]) : o1 < o2

----------------------------------------------------------------------------
(* Claims on group_alerts_by_type.                                         *)

\* the positions of the input at which an alert of the event type stands
PositionsOfType(alerts_, event_type) == {k \in 1..Len(alerts_) : alerts_[k].event = event_type}

\* the sum of the lengths of the lists of a mapping, over the keys in keys
RECURSIVE TotalSize(_, _)
TotalSize(grouped, keys) ==
    IF keys = {}
    THEN 0
    ELSE LET key == CHOOSE k \in keys : TRUE
         IN  Len(grouped[key]) + TotalSize(grouped, keys \ {key})

\* C16: the mapping returned by group_alerts_by_type has the event types of
\* the input as its keys; the group of an event type is the alerts of that
\* type, each once and in the order of the input, so that no group is empty
\* and every alert is in the group of its type alone; the sizes of the
\* groups sum to the number of alerts; the empty list gives the empty
\* mapping.
C16_Partition ==
    call_out # None =>
        LET alerts_ == call_in.alerts
            grouped == call_out[1]
        IN  /\ DOMAIN grouped = {alerts_[k].event : k \in 1..Len(alerts_)}
            /\ \A event_type \in DOMAIN grouped :
                   LET positions == PositionsOfType(alerts_, event_type)
                   IN  /\ grouped[event_type] # <<>>
                       /\ Len(grouped[event_type]) = Cardinality(positions)
                       /\ \A m \in 1..Len(grouped[event_type]) :
                              grouped[event_type][m] = alerts_[Nth(positions, m)]
            /\ TotalSize(grouped, DOMAIN grouped) = Len(alerts_)
            /\ alerts_ = <<>> => grouped = EmptyDict

\* C16 witness: three alerts of two event types have been grouped, the two
\* of the same type in their order
C16_Witness ==
    /\ call_out # None
    /\ call_in.alerts = <<MkAlert("Flood Warning", <<Rankin>>),
                          MkAlert("Tornado Warning", <<Hinds>>),
                          MkAlert("Flood Warning", <<Hinds>>)>>
    /\ DOMAIN call_out[1] = {JsonString("Flood Warning"), JsonString("Tornado Warning")}
    /\ call_out[1][JsonString("Flood Warning")] = <<call_in.alerts[1], call_in.alerts[3]>>
    /\ call_out[1][JsonString("Tornado Warning")] = <<call_in.alerts[2]>>

----------------------------------------------------------------------------
(* Claims on get_max_risk_from_outlooks.                                   *)

\* the severe risks of the polygons of the outlooks of the day
RisksOfDay(outlooks, day) ==
    UNION {{outlooks[n].polygons[m].risk[1] :
               m \in {k \in 1..Len(outlooks[n].polygons) : outlooks[n].polygons[k].risk # None}} :
           n \in {k \in 1..Len(outlooks) : outlooks[k].day = day}}

\* C17: get_max_risk_from_outlooks returns the severe risk of greatest rank
\* among the polygons of the outlooks of the day asked for, whatever the
\* polygons of the other days; HIGH when one of them has HIGH; and NONE
\* when no outlook of that day has a polygon.
C17_MaxRiskOfDay ==
    call_out # None =>
        LET risks == RisksOfDay(call_in.outlooks, call_in.day)
        IN  /\ risks = {} => call_out[1] = SPC("NONE")
            /\ risks # {} =>
                   /\ call_out[1] \in risks
                   /\ \A risk \in risks :
                          Position(SevereScale, risk) <= Position(SevereScale, call_out[1])
            /\ SPC("HIGH") \in risks => call_out[1] = SPC("HIGH")

\* C17 witness: the greatest risk of day 1 has been returned, where day 2
\* has greater ones
C17_Witness ==
    /\ call_out = Some(SPC("ENH"))
    /\ call_in.day = 1
    /\ call_in.outlooks =
           <<MkOutlook(2, <<RiskPolygon("MDT"), RiskPolygon("HIGH"), RiskPolygon("ENH")>>),
             MkOutlook(1, <<RiskPolygon("MRGL"), RiskPolygon("ENH"), RiskPolygon("SLGT")>>)>>

----------------------------------------------------------------------------
(* Claims on build_severe_summary.                                         *)

\* the risks above NONE of the county map of an outlook
RisksAboveNone(outlook) ==
    {outlook.county_risks[c] : c \in DOMAIN outlook.county_risks} \ {SPC("NONE")}

\* the outlooks whose county map has a maximum above NONE, in their order
YieldingOutlooks(outlooks) == SelectSeq(outlooks, LAMBDA o : RisksAboveNone(o) # {})

\* the risks above NONE of the polygons of the outlooks of day 1
Day1PolygonRisks(outlooks) ==
    UNION {{outlooks[n].polygons[k].risk[1] : k \in 1..Len(outlooks[n].polygons)} :
              n \in {m \in 1..Len(outlooks) : outlooks[m].day = 1}} \ {SPC("NONE")}

\* the label of a risk as the narrative writes it
LabelOfRisk(risk) ==
    CASE risk = SPC("TSTM") -> <<71, 101, 110, 101, 114, 97, 108, 32, 84, 104, 117, 110, 100, 101, 114, 115, 116, 111, 114, 109, 32, 82, 105, 115, 107>>
      [] risk = SPC("MRGL") -> <<77, 97, 114, 103, 105, 110, 97, 108, 32, 83, 101, 118, 101, 114, 101, 32, 82, 105, 115, 107>>
      [] risk = SPC("SLGT") -> <<83, 108, 105, 103, 104, 116, 32, 83, 101, 118, 101, 114, 101, 32, 82, 105, 115, 107>>
      [] risk = SPC("ENH") -> <<69, 110, 104, 97, 110, 99, 101, 100, 32, 83, 101, 118, 101, 114, 101, 32, 82, 105, 115, 107>>
      [] risk = SPC("MDT") -> <<77, 111, 100, 101, 114, 97, 116, 101, 32, 83, 101, 118, 101, 114, 101, 32, 82, 105, 115, 107>>
      [] risk = SPC("HIGH") -> <<72, 105, 103, 104, 32, 83, 101, 118, 101, 114, 101, 32, 82, 105, 115, 107>>

Bar == 124

\* C29: the narrative of build_severe_summary has one segment for each
\* outlook whose county map has a maximum above NONE, in the order of the
\* outlooks, and the segment names the day of the outlook and that maximum;
\* when no outlook yields a segment, the narrative is the fallback statement
\* of day 1, naming the greatest risk of the polygons of day 1, if that risk
\* is above NONE, and there is no narrative otherwise.
C29_SevereNarrative ==
    call_out # None =>
        LET yielding == YieldingOutlooks(call_in)
            day1 == Day1PolygonRisks(call_in)
        IN  IF yielding # <<>>
            THEN /\ call_out[1] # None
                 /\ LET segments == Split(call_out[1][1], Bar)
                    IN  /\ Len(segments) = Len(yielding)
                        /\ \A n \in 1..Len(yielding) :
                              strip(segments[n]) =
                                  <<68, 97, 121, 32>> \o Str(yielding[n].day) \o <<58, 32>>
                                      \o LabelOfRisk(Greatest(RisksAboveNone(yielding[n])))
                                      \o <<32, 102, 111, 114, 32, 112, 111, 114, 116, 105, 111, 110, 115, 32, 111, 102, 32, 77, 105, 115, 115, 105, 115, 115, 105, 112, 112, 105>>
            ELSE IF day1 # {}
            THEN call_out[1] = Some(<<68, 97, 121, 32, 49, 58, 32>> \o LabelOfRisk(Greatest(day1))
                                        \o <<32, 112, 111, 115, 115, 105, 98, 108, 101>>)
            ELSE call_out[1] = None

\* C29 witness: the narrative of two outlooks that both yield a segment, the
\* first of day 2 with HIGH over MDT and the second of day 1 with ENH over
\* SLGT, and so in the order of the outlooks and not of the days.
C29_Witness ==
    /\ call_out # None
    /\ Len(call_in) = 2
    /\ call_in[1].day = 2
    /\ call_in[2].day = 1
    /\ RisksAboveNone(call_in[1]) = {SPC("HIGH"), SPC("MDT")}
    /\ RisksAboveNone(call_in[2]) = {SPC("SLGT"), SPC("ENH")}
    /\ call_out[1] = Some(<<68, 97, 121, 32, 50, 58, 32, 72, 105, 103, 104, 32, 83, 101, 118, 101, 114, 101, 32, 82, 105, 115, 107, 32, 102, 111, 114, 32, 112, 111, 114, 116, 105, 111, 110, 115, 32, 111, 102, 32, 77, 105, 115, 115, 105, 115, 115, 105, 112, 112, 105, 32, 124, 32, 68, 97, 121, 32, 49, 58, 32, 69, 110, 104, 97, 110, 99, 101, 100, 32, 83, 101, 118, 101, 114, 101, 32, 82, 105, 115, 107, 32, 102, 111, 114, 32, 112, 111, 114, 116, 105, 111, 110, 115, 32, 111, 102, 32, 77, 105, 115, 115, 105, 115, 115, 105, 112, 112, 105>>)

----------------------------------------------------------------------------
(* Claims on get_counties_by_region.                                       *)

\* the entry has a name that is not empty
Named(county) == county.name # None /\ county.name # Some(<<>>)

\* the region of the entry, "Unknown" for an entry without one: without
\* the key, or with null under it
RegionLabel(county) ==
    IF county.region.kind \in {"missing", "null"} THEN JsonString("Unknown") ELSE county.region

\* the positions of the named entries of the region
PositionsInRegion(counties, region) ==
    {k \in 1..Len(counties) : Named(counties[k]) /\ RegionLabel(counties[k]) = region}

\* C18: the mapping returned by get_counties_by_region has as keys the
\* regions of the entries with a name that is not empty, "Unknown" for an
\* entry without a region, so that no region is without a county; the list
\* of a region is the names of its named entries, each once and in the
\* order of the configuration; the entries without a name are in no list.
C18_ByRegion ==
    call_out # None =>
        LET counties == call_in.counties
            by_region == call_out[1]
        IN  /\ DOMAIN by_region =
                   {RegionLabel(counties[k]) : k \in {j \in 1..Len(counties) : Named(counties[j])}}
            /\ \A region \in DOMAIN by_region :
                   LET positions == PositionsInRegion(counties, region)
                   IN  /\ by_region[region] # <<>>
                       /\ Len(by_region[region]) = Cardinality(positions)
                       /\ \A m \in 1..Len(by_region[region]) :
                              by_region[region][m] = counties[Nth(positions, m)].name[1]
            /\ TotalSize(by_region, DOMAIN by_region)
                   = Cardinality({k \in 1..Len(counties) : Named(counties[k])})

----------------------------------------------------------------------------
(* Claims on build_briefing.                                               *)

Sources == {"alerts", "forecasts", "spc", "ero", "nhc"}

\* the outlooks as fetched: their days and their polygons
Fetched(outlooks) == [n \in 1..Len(outlooks) |-> <<outlooks[n].day, outlooks[n].polygons>>]

\* C1: whichever fetches raise, build_briefing returns a briefing for which
\* every source has been fetched, a source that raised gives its empty
\* default, and the data of a source that did not raise is in the briefing:
\* its alerts, its outlooks with their polygons, its tropical systems, and
\* one regional summary for every anchor forecast, with the alerts of the
\* region.
C1_FailureIsolation ==
    bb_pc = "done" =>
        LET briefing == bb_briefing[1]
            forecasts == bb_feed.forecasts.data
        IN  /\ bb_briefing # None
            /\ \A s \in Sources : \E n \in 1..Len(bb_log) : bb_log[n].call = FetchCall[s]
            /\ briefing.alerts = bb_feed.alerts.data
            /\ briefing.alerts_by_type = group_alerts_by_type(bb_feed.alerts.data)
            /\ Fetched(briefing.spc_outlooks) = Fetched(bb_feed.spc.data)
            /\ Fetched(briefing.ero_outlooks) = Fetched(bb_feed.ero.data)
            /\ briefing.tropical_systems = bb_feed.nhc.data
            /\ Len(briefing.regional_summaries) = Len(forecasts)
            /\ \A n \in 1..Len(forecasts) :
                  /\ briefing.regional_summaries[n].region = forecasts[n].region
                  /\ briefing.regional_summaries[n].anchor_city = forecasts[n].location_name
                  /\ briefing.regional_summaries[n].daily_forecasts
                         = extract_daily_forecasts(forecasts[n].periods)
                  /\ briefing.regional_summaries[n].alerts
                         = RegionAlerts(bb_feed.alerts.data,
                                        RegionCounties(CountiesConfig, forecasts[n].region))

\* the number of entries of a list that equal v
Count(list, v) == Cardinality({n \in 1..Len(list) : list[n] = v})

\* C2: in the returned briefing every source is recorded once: a source
\* whose fetch returned has its name once in sources_used and no gap, and a
\* source whose fetch raised has its gap string once in data_gaps and is
\* not in sources_used.
C2_RecordedOnce ==
    bb_pc = "done" =>
        \A s \in Sources :
            IF bb_feed[s].raises
            THEN /\ Count(bb_briefing[1].data_gaps, GapString[s]) = 1
                 /\ Count(bb_briefing[1].sources_used, SourceName[s]) = 0
            ELSE /\ Count(bb_briefing[1].sources_used, SourceName[s]) = 1
                 /\ Count(bb_briefing[1].data_gaps, GapString[s]) = 0

\* C10: a call of get_counties_in_outlook comes after the call of every one
\* of the five fetches has returned or raised.
C10_FanInBarrier ==
    \A n \in 1..Len(bb_log) :
        bb_log[n].call = "get_counties_in_outlook" =>
            \A s \in Sources : \E m \in 1..(n - 1) : bb_log[m].call = FetchCall[s]


\* every request of the source has failed or timed out
UpstreamFailed(s) ==
    CASE s = "alerts" -> bb_upstream.alerts.status = "request_error"
      [] s = "forecasts" ->
             /\ bb_upstream.forecasts # None
             /\ \A n \in 1..Len(bb_upstream.forecasts[1]) :
                    bb_upstream.forecasts[1][n].metadata.status = "request_error"
      [] s = "spc" -> \A n \in 1..Len(bb_upstream.spc) : bb_upstream.spc[n].status = "request_error"
      [] s = "ero" ->
             /\ bb_upstream.ero.discovery.status = "request_error"
             /\ \A n \in 1..Len(ERO_LAYERS) :
                    LayerAnswer(bb_upstream.ero, ERO_LAYERS[n].id).status = "request_error"
      [] OTHER -> bb_upstream.nhc.status = "request_error"

\* the source has given the briefing nothing: no alert, no summary, no
\* polygon, no tropical system
ContributionEmpty(briefing, s) ==
    CASE s = "alerts" -> briefing.alerts = <<>>
      [] s = "forecasts" -> briefing.regional_summaries = <<>>
      [] s = "spc" -> \A n \in 1..Len(briefing.spc_outlooks) : briefing.spc_outlooks[n].polygons = <<>>
      [] s = "ero" -> \A n \in 1..Len(briefing.ero_outlooks) : briefing.ero_outlooks[n].polygons = <<>>
      [] OTHER -> briefing.tropical_systems = <<>>

\* C11: when every request of a source has failed or timed out, the run
\* still returns a briefing, data_gaps of the briefing holds the entry of
\* that source, and the source has contributed nothing to the briefing.
C11_UpstreamFailureRecorded ==
    bb_pc = "done" =>
        /\ bb_briefing # None
        /\ \A s \in Sources :
               UpstreamFailed(s) =>
                   /\ Count(bb_briefing[1].data_gaps, GapString[s]) >= 1
                   /\ ContributionEmpty(bb_briefing[1], s)

\* C30: in the returned briefing no source is recorded both as used and as
\* a gap: the name of a source is in sources_used only if its gap string is
\* not in data_gaps, also when the aggregation of the county risks of an
\* outlook raises after the fetch of the outlooks has returned.
C30_UsedOrGap ==
    bb_pc = "done" =>
        \A s \in Sources :
            Count(bb_briefing[1].sources_used, SourceName[s]) >= 1 =>
                Count(bb_briefing[1].data_gaps, GapString[s]) = 0

====
